---- MODULE Spec2Model ----
(***************************************************************************)
(* A model of the voice_denoiser engine (app/core/denoiser.py,             *)
(* app/core/stft_utils.py, app/core/audio_io.py) and of the command-line   *)
(* batch driver (scripts/batch_process.py).                                *)
(*                                                                         *)
(* Audio buffers are abstracted to a length in samples, a peak level, and  *)
(* a coarse magnitude spectrum on the normalised frequencies 0.0 .. 0.5    *)
(* (in tenths of a cycle per sample).  Frequencies in Hz are kept doubled  *)
(* (a value f2 stands for f2/2 Hz) so that nyquist - 1 = sr/2 - 1 is an    *)
(* integer for every sample rate.                                          *)
(***************************************************************************)
EXTENDS Integers, Sequences, FiniteSets, TLC

\* ------------------------------------------------------------------ bounds
MaxCalls == 2

\* Significand width of the model's binary floating point.  numpy's float32
\* has 24 bits and float64 has 53; the rounding rule (to nearest, ties to
\* even) is the same at every width.
MantBits == 5

\* Files in the input directory and worker threads of the batch driver.
MaxFiles == 3
MaxWorkers == 2

\* Largest magnitude of a bin in the per-bin formulas.
MaxMag == 8

\* settings.MAX_UPLOAD_FILES, the number of files a batch request may carry:
\* read from the environment, 10 when it is not set.
MAX_UPLOAD_FILES == 2

\* The number of requests a client sends one after the other.
MaxRequests == 2

\* ------------------------------------------------------------- helpers
Min(a, b) == IF a <= b THEN a ELSE b
Max(a, b) == IF a >= b THEN a ELSE b

None == "None"

\* An optional number: {} when the argument is not passed, {v} when it is.
Absent == {}
Some(v) == {v}
The(opt) == CHOOSE v \in opt : TRUE

\* ------------------------------------------------------------ rationals
\* A rational is a pair <<n, d>> in lowest terms, d > 0.
RECURSIVE GCD(_, _)
GCD(a, b) == IF b = 0 THEN a ELSE GCD(b, a % b)

\* The pair p in lowest terms.  A function, so that it is applied to the
\* value of its argument.
Lowest[p \in Int \X Int] ==
    LET g == GCD(p[1], p[2])
    IN  IF g = 0 THEN <<0, 1>> ELSE <<p[1] \div g, p[2] \div g>>

Q(n, d) == Lowest[<<n, d>>]

QLess(a, b) == a[1] * b[2] < b[1] * a[2]
QLeq(a, b) == a[1] * b[2] <= b[1] * a[2]
QMax(a, b) == IF QLeq(b, a) THEN a ELSE b
Sum[p \in (Int \X Int) \X (Int \X Int)] ==
    Q(p[1][1] * p[2][2] + p[2][1] * p[1][2], p[1][2] * p[2][2])

QAdd(a, b) == Sum[<<a, b>>]
QMul(a, b) == Q(a[1] * b[1], a[2] * b[2])

Zero == <<0, 1>>
One == <<1, 1>>

\* --------------------------------------------------- floating point
Pow2(k) == 2 ^ k

\* n/d rounded to an integer, to nearest, ties to even.
RoundHalfEven(n, d) ==
    LET q == n \div d
        r == n % d
    IN  IF 2 * r < d THEN q
        ELSE IF 2 * r > d THEN q + 1
        ELSE IF q % 2 = 0 THEN q ELSE q + 1

\* r doubled and r halved.
Twice[r \in Int \X Int] == Q(2 * r[1], r[2])
Half[r \in Int \X Int] == Q(r[1], 2 * r[2])

\* p[1]/p[2], p[1] >= 0 and p[2] > 0, rounded to MantBits significant bits.
RoundQ[p \in Int \X Int] ==
    IF p[1] = 0 THEN Zero
    ELSE IF p[1] >= p[2] * Pow2(MantBits)
    THEN Twice[RoundQ[<<p[1], 2 * p[2]>>]]
    ELSE IF p[1] < p[2] * Pow2(MantBits - 1)
    THEN Half[RoundQ[<<2 * p[1], p[2]>>]]
    ELSE Q(RoundHalfEven(p[1], p[2]), 1)

\* The opposite of r.
Neg[r \in Int \X Int] == <<0 - r[1], r[2]>>

\* A signed rational rounded to MantBits significant bits.
Rounded[p \in Int \X Int] ==
    IF p[1] < 0 THEN Neg[RoundQ[<<0 - p[1], p[2]>>]] ELSE RoundQ[p]

Round(n, d) == Rounded[<<n, d>>]

Fl(a) == Round(a[1], a[2])
FAdd(a, b) == Round(a[1] * b[2] + b[1] * a[2], a[2] * b[2])
FSub(a, b) == Round(a[1] * b[2] - b[1] * a[2], a[2] * b[2])
FMul(a, b) == Round(a[1] * b[1], a[2] * b[2])
\* b > 0
FDiv(a, b) == Round(a[1] * b[2], a[2] * b[1])

\* ------------------------------------------------- Denoiser constants
METHOD_BANDPASS == "bandpass"
METHOD_SPECTRAL_SUBTRACTION == "spectral_subtraction"
METHOD_WIENER == "wiener"
METHOD_NOISEREDUCE == "noisereduce"
METHOD_ADAPTIVE == "adaptive"

get_available_methods ==
    { METHOD_BANDPASS, METHOD_SPECTRAL_SUBTRACTION, METHOD_WIENER,
      METHOD_NOISEREDUCE, METHOD_ADAPTIVE }

\* Voice profiles, (lowcut, highcut) in Hz.
SPEECH_FREQ_RANGES ==
    [ male |-> <<80, 8000>>, female |-> <<100, 10000>>, broadband |-> <<50, 12000>> ]

VoiceProfiles == { "male", "female", "broadband" }

\* dict.get(voice_type, SPEECH_FREQ_RANGES['broadband'])
FreqRange(voice_type) ==
    IF voice_type \in VoiceProfiles
    THEN SPEECH_FREQ_RANGES[voice_type]
    ELSE SPEECH_FREQ_RANGES["broadband"]

\* The per-method parameter table built by the constructor.
method_params ==
    [ bandpass |-> [ order |-> 5, voice_type |-> "broadband" ],
      spectral_subtraction |->
          [ n_fft |-> 2048, hop_length |-> 512, over_subtraction10 |-> 15,
            spectral_floor100 |-> 1, noise_duration10 |-> 5 ],
      wiener |-> [ n_fft |-> 2048, hop_length |-> 512, smoothing100 |-> 98 ],
      noisereduce |->
          [ stationary |-> FALSE, prop_decrease10 |-> 9, n_fft |-> 2048,
            hop_length |-> 512 ],
      adaptive |->
          [ initial_method |-> METHOD_BANDPASS,
            fallback_method |-> METHOD_NOISEREDUCE ] ]

\* Denoiser.__init__
NewDenoiser(default_method, target_sr) ==
    [ default_method |-> default_method,
      target_sr |-> target_sr,
      verbose |-> FALSE,
      method_params |-> method_params ]

\* ------------------------------------------------------------ buffers
\* Normalised frequency points, tenths of a cycle per sample.
Points == 0 .. 5

\* Number of two-sided FFT bins a point stands for: 0 and the Nyquist bin
\* are their own mirror images, every other frequency appears with both signs.
Weight(t) == IF t = 0 \/ t = 5 THEN 1 ELSE 2

ZeroSpectrum == [ t \in Points |-> Zero ]

\* The magnitude spectra: a rational at every point.
AnySpectrum == [ Points -> Int \X Int ]

\* A buffer: samples count, leading/trailing silent samples, peak level in
\* thousandths, the magnitude spectrum mag of the whole signal and nz of its
\* leading (noise) segment, whether the external delegate produced it, and
\* the memory that holds its samples, named after the step that allocated
\* it ("input" is the caller's array).
Buffer(len, sil, peak, mag, nz) ==
    [ len |-> len, sil |-> sil, peak |-> peak, mag |-> mag, nz |-> nz,
      suppressed |-> FALSE, mem |-> "input" ]

\* The array a computation allocates for its result.
New(b, step) == [ b EXCEPT !.mem = step ]

AllZero(s) == \A t \in Points : s[t] = Zero

\* Outcome of a stage: an error name ("none" when it returned), the buffer it
\* returned and the filters it ran, in order.
Ok(buf, stages) == [ err |-> "none", buf |-> buf, stages |-> stages ]
Raise(err, buf, stages) == [ err |-> err, buf |-> buf, stages |-> stages ]

\* ------------------------------------------------------------ AudioIO
TargetLevel == 900

\* AudioIO.normalize_audio(audio, target_level=0.9): an empty or an all-zero
\* buffer is returned as it is, the same array; any other is scaled to the
\* target peak and clipped to [-1, 1] in a new array.
normalize_audio(b) ==
    IF b.len = 0 THEN b
    ELSE IF b.peak > 0
         THEN New([ b EXCEPT !.peak = Min(TargetLevel, 1000) ], "normalize")
         ELSE b

\* Position on the target grid of the frequency that point t has at orig_sr.
ResamplePoint(t, orig_sr, target_sr) == (2 * t * orig_sr + target_sr) \div (2 * target_sr)

ResampleSpectrum(s, orig_sr, target_sr) ==
    [ u \in Points |->
        LET from == { t \in Points : ResamplePoint(t, orig_sr, target_sr) = u }
        IN  IF from = {} THEN Zero
            ELSE CHOOSE m \in { s[t] : t \in from } : \A t \in from : QLeq(s[t], m) ]

\* AudioIO.resample_audio: the same buffer when the rates agree, otherwise
\* ceil(len * target_sr / orig_sr) samples holding the same frequencies in Hz.
resample_audio(b, orig_sr, target_sr) ==
    IF orig_sr = target_sr THEN b
    ELSE [ b EXCEPT
             !.len = (b.len * target_sr + orig_sr - 1) \div orig_sr,
             !.sil = (b.sil * target_sr) \div orig_sr,
             !.mag = ResampleSpectrum(b.mag, orig_sr, target_sr),
             !.nz = ResampleSpectrum(b.nz, orig_sr, target_sr),
             !.mem = "resample" ]

\* AudioIO.load_audio(filepath, sr): a missing, unsupported or undecodable
\* file raises; a decoded one is resampled to sr and normalised, and comes
\* back with the rate sr, or with its own rate when sr is None (0).
load_audio(file, sr) ==
    IF ~file.loadable
    THEN [ err |-> "LoadError", buf |-> file.buf, stages |-> <<>>, sr |-> 0 ]
    ELSE IF sr = 0
    THEN [ err |-> "none", buf |-> normalize_audio(New(file.buf, "load")),
           stages |-> <<"load">>, sr |-> file.sr ]
    ELSE [ err |-> "none",
           buf |-> normalize_audio(resample_audio(New(file.buf, "load"), file.sr, sr)),
           stages |-> <<"load">>, sr |-> sr ]

\* AudioIO.trim_silence: the leading and trailing silence is cut off;
\* librosa.effects.trim returns a slice of the array it was given.
trim_silence(b) == [ b EXCEPT !.len = b.len - b.sil, !.sil = 0 ]

\* ---------------------------------------------------- keyword arguments
\* The keyword arguments of a denoise call as the method function sees them:
\* one that the caller leaves out has the default of the function's
\* signature.  noise_duration is counted in tenths of a second.
Kwargs(lowcut, highcut, order, voice_type) ==
    [ lowcut |-> lowcut, highcut |-> highcut, order |-> order, voice_type |-> voice_type,
      n_fft |-> 2048, hop_length |-> 512, noise_duration10 |-> 5 ]

NoKwargs == Kwargs(Absent, Absent, 5, "broadband")

\* n_fft, hop_length and noise_duration as a caller of a spectral method
\* passes them.
SpectralKwargs(n_fft, hop_length, noise_duration10) ==
    [ NoKwargs EXCEPT !.n_fft = n_fft, !.hop_length = hop_length,
                      !.noise_duration10 = noise_duration10 ]

\* ------------------------------------------------- time-domain filters
\* Mutant: both edges come from the voice profile as soon as one is missing.
ResolveLowFromProfile(lowcut, highcut, voice_type) ==
    IF lowcut = Absent \/ highcut = Absent
    THEN 2 * FreqRange(voice_type)[1]
    ELSE 2 * The(lowcut)

\* Doubled cutoffs before clamping: an explicit edge as given, a missing one
\* from the voice profile.
ResolveLow2(lowcut, highcut, voice_type) ==
    IF lowcut = Absent THEN 2 * FreqRange(voice_type)[1] ELSE 2 * The(lowcut)

ResolveHigh2(lowcut, highcut, voice_type) ==
    IF highcut = Absent THEN 2 * FreqRange(voice_type)[2] ELSE 2 * The(highcut)

\* Mutant: the cutoff clamped to the Nyquist frequency itself.
ClampCutNyquist(cut2, sr) == Min(cut2, sr)

\* min(cut, nyquist - 1) with nyquist = 0.5 * sr, doubled.
ClampCut2(cut2, sr) == Min(cut2, sr - 2)

\* scipy.signal.filtfilt pads by 3 * max(len(a), len(b)) samples on each side
\* and rejects an input that is not longer than that.
PadLen(ncoef) == 3 * ncoef

\* A filter keeps the points whose frequency t/10 * sr lies in the pass band.
InBand(t, sr, lowc2, highc2) == 5 * lowc2 <= t * sr /\ t * sr <= 5 * highc2

Keep(s, keep) == [ t \in Points |-> IF keep[t] THEN s[t] ELSE Zero ]

\* The output of signal.filtfilt, a new array.
Filtered(b, keep) ==
    LET m == Keep(b.mag, keep)
    IN  [ b EXCEPT !.mag = m, !.nz = Keep(b.nz, keep),
                   !.peak = IF AllZero(m) THEN 0 ELSE b.peak,
                   !.mem = "filtfilt" ]

\* Denoiser._notch_filter(audio, sr, freq=50.0, Q=30.0)
notch_filter(b, sr) ==
    IF ~(0 < 100 /\ 100 < sr)
    THEN Raise("NotchDesignError", b, <<>>)
    ELSE IF b.len <= PadLen(3)
    THEN Raise("PadlenError", b, <<>>)
    ELSE Ok(New(Filtered(b, [ t \in Points |-> t * sr # 500 ]), "notch"), <<"notch">>)

\* Mutant: a band-pass filter that hands the input back when the filter
\* cannot be applied to it.
bandpass_or_input(b, sr, lowcut, highcut, order, voice_type) ==
    LET lowc2 == ClampCut2(ResolveLow2(lowcut, highcut, voice_type), sr)
        highc2 == ClampCut2(ResolveHigh2(lowcut, highcut, voice_type), sr)
    IN  IF lowc2 >= highc2
        THEN Raise("InvalidBand", b, <<>>)
        ELSE IF b.len <= PadLen(2 * order + 1)
        THEN Ok(b, <<"butter">>)
        ELSE Ok(Filtered(b, [ t \in Points |-> InBand(t, sr, lowc2, highc2) ]),
                <<"butter", "filtfilt">>)

\* Denoiser._bandpass_filter(audio, sr, lowcut, highcut, order, voice_type).
\* The order is not checked before the cutoffs: signal.butter rejects a
\* negative one, and designs for the order 0 the filter b = a = [1], which
\* signal.filtfilt cannot start (lfilter_zi needs two coefficients).
bandpass_filter(b, sr, lowcut, highcut, order, voice_type) ==
    LET lowc2 == ClampCut2(ResolveLow2(lowcut, highcut, voice_type), sr)
        highc2 == ClampCut2(ResolveHigh2(lowcut, highcut, voice_type), sr)
    IN  IF lowc2 >= highc2
        THEN Raise("InvalidBand", b, <<>>)
        ELSE IF ~(0 < lowc2 /\ highc2 < sr) \/ order < 0
        THEN Raise("FilterDesignError", b, <<"butter">>)
        ELSE IF b.len <= PadLen(2 * order + 1)
        THEN Raise("PadlenError", b, <<"butter">>)
        ELSE IF order = 0
        THEN Raise("FilterStateError", b, <<"butter">>)
        ELSE LET f == Filtered(b, [ t \in Points |-> InBand(t, sr, lowc2, highc2) ])
             IN  IF (90 <= lowc2 /\ lowc2 <= 110) \/ (90 <= highc2 /\ highc2 <= 110)
                 THEN Ok(f, <<"butter", "filtfilt">>)
                 ELSE LET n == notch_filter(f, sr)
                      IN  [ n EXCEPT !.stages = <<"butter", "filtfilt">> \o n.stages ]

\* ------------------------------------------------------- STFTUtils
\* Mutant: the subtraction without the spectral floor.
subtraction_unfloored(magnitude, noise_profile, over_subtraction, spectral_floor) ==
    FSub(magnitude, FMul(over_subtraction, noise_profile))

\* STFTUtils.spectral_subtraction, one bin of one frame:
\* np.maximum(magnitude - over_subtraction * noise_profile,
\*            spectral_floor * magnitude)
spectral_subtraction(magnitude, noise_profile, over_subtraction, spectral_floor) ==
    QMax(FSub(magnitude, FMul(over_subtraction, noise_profile)),
         FMul(spectral_floor, magnitude))

\* STFTUtils.stft hands its arguments to librosa.stft unchecked.  The
\* library rejects a hop length or an FFT size below 1; every other pair is
\* transformed, a hop length that reaches or exceeds the FFT size included.
stft(n_fft, hop_length) ==
    IF hop_length < 1 \/ n_fft < 1 THEN "ParameterError" ELSE "none"

\* int(noise_duration * sr), noise_duration in tenths of a second; the
\* sample rates are multiples of ten.
NoiseSamples(noise_duration10, sr) == (noise_duration10 * sr) \div 10

\* The length of the noise segment of STFTUtils.estimate_noise_profile: the
\* whole buffer when noise_samples is not below its length, otherwise
\* audio[:noise_samples], where a negative noise_samples counts from the end.
NoiseSegmentLen(len, noise_samples) ==
    IF noise_samples >= len THEN len
    ELSE IF noise_samples >= 0 THEN noise_samples
    ELSE Max(len + noise_samples, 0)

\* STFTUtils.estimate_noise_profile on a non-empty buffer: the mean magnitude
\* of the noise segment.  The transform of an empty segment is one frame of
\* padding, or an error of the padding (empty_stft_raises) where the library
\* pads by reflection.
estimate_noise_profile(b, sr, noise_duration10, n_fft, hop_length, empty_stft_raises) ==
    LET noise_samples == NoiseSamples(noise_duration10, sr)
        segment == NoiseSegmentLen(b.len, noise_samples)
    IN  IF stft(n_fft, hop_length) # "none"
        THEN [ err |-> stft(n_fft, hop_length), segment |-> segment,
               profile |-> ZeroSpectrum ]
        ELSE IF segment = 0 /\ empty_stft_raises
        THEN [ err |-> "PadError", segment |-> segment, profile |-> ZeroSpectrum ]
        ELSE [ err |-> "none", segment |-> segment,
               profile |-> IF noise_samples >= b.len THEN b.mag
                           ELSE IF segment = 0 THEN ZeroSpectrum
                           ELSE b.nz ]

\* ------------------------------------------------- spectral methods
DefaultOver == <<3, 2>>
DefaultFloor == Fl(<<1, 100>>)

\* Denoiser._spectral_subtraction(audio, sr, **k) on a non-empty buffer, with
\* the default over_subtraction and spectral_floor: the noise profile, the
\* transform of the buffer, the subtraction and the inverse transform.
denoiser_spectral_subtraction(b, sr, k, empty_stft_raises) ==
    LET estimate == estimate_noise_profile(b, sr, k.noise_duration10, k.n_fft,
                                           k.hop_length, empty_stft_raises)
        noise_profile == estimate.profile
        clean == [ t \in Points |->
                     spectral_subtraction(b.mag[t], noise_profile[t],
                                          DefaultOver, DefaultFloor) ]
    IN  IF estimate.err # "none"
        THEN Raise(estimate.err, b, <<>>)
        ELSE Ok([ b EXCEPT !.mag = clean,
                           !.nz = [ t \in Points |->
                                      spectral_subtraction(b.nz[t], noise_profile[t],
                                                           DefaultOver, DefaultFloor) ],
                           !.peak = IF AllZero(clean) THEN 0 ELSE b.peak,
                           !.mem = "istft" ],
                <<"noise_profile", "stft", "spectral_subtraction", "istft">>)

\* 1e-10, the unit in which power spectral densities are counted.
Eps == One

\* Mutant: the gain taken for the a-priori SNR itself.
wiener_weights_snr(magnitude_squared, noise_psd) ==
    FDiv(QMax(FSub(magnitude_squared, noise_psd), Zero), FAdd(noise_psd, Eps))

\* Denoiser._wiener_filter, one bin of one frame: the gain
\* prior_snr / (prior_snr + 1), prior_snr = max(magnitude^2 - noise_psd, 0)
\* / (noise_psd + 1e-10).
wiener_weights(magnitude_squared, noise_psd) ==
    LET signal_psd_est == QMax(FSub(magnitude_squared, noise_psd), Zero)
        prior_snr == FDiv(signal_psd_est, FAdd(noise_psd, Eps))
    IN  FDiv(prior_snr, FAdd(prior_snr, One))

\* Denoiser._wiener_filter, lines 333-338: the number of frames whose power
\* is averaged into the noise PSD, the leading int(0.5 * sr / hop_length)
\* frames when the transform has more frames than that, otherwise all.
NoisePsdFrames(len, sr, hop_length) ==
    LET noise_frames == (5 * sr) \div (10 * hop_length)
        frames == 1 + len \div hop_length
    IN  IF noise_frames < frames THEN noise_frames ELSE frames

\* The mean of no frame is NaN at every frequency: 0/0.
NaNSpectrum == [ t \in Points |-> <<0, 0>> ]

\* Denoiser._wiener_filter(audio, sr, **k) on a non-empty buffer: the
\* transform, then the noise PSD as the mean power of the leading
\* int(0.5 * sr / hop_length) frames, or of all frames when there are no
\* more than that.  The mean of an empty slice of frames is NaN, and so is
\* every sample of the output; np.max of it is not greater than 0.
wiener_filter(b, sr, k) ==
    LET noise_frames == (5 * sr) \div (10 * k.hop_length)
        frames == 1 + b.len \div k.hop_length
        noise_mag == IF noise_frames < frames THEN b.nz ELSE b.mag
        gain == [ t \in Points |->
                    wiener_weights(FMul(b.mag[t], b.mag[t]),
                                   FMul(noise_mag[t], noise_mag[t])) ]
        clean == [ t \in Points |-> FMul(b.mag[t], gain[t]) ]
    IN  IF stft(k.n_fft, k.hop_length) # "none"
        THEN Raise(stft(k.n_fft, k.hop_length), b, <<>>)
        ELSE IF NoisePsdFrames(b.len, sr, k.hop_length) = 0
        THEN Ok([ b EXCEPT !.mag = NaNSpectrum, !.nz = NaNSpectrum, !.peak = 0,
                           !.mem = "istft" ],
                <<"stft", "wiener", "istft">>)
        ELSE Ok([ b EXCEPT !.mag = clean,
                           !.nz = [ t \in Points |-> FMul(b.nz[t], gain[t]) ],
                           !.peak = IF AllZero(clean) THEN 0 ELSE b.peak,
                           !.mem = "istft" ],
                <<"stft", "wiener", "istft">>)

\* Mutant: the delegate's error is swallowed and the input is handed back.
noisereduce_or_input(b, sr, delegate_raises) ==
    IF delegate_raises
    THEN Ok(b, <<"reduce_noise">>)
    ELSE Ok([ b EXCEPT !.suppressed = TRUE, !.mem = "reduce_noise" ], <<"reduce_noise">>)

\* Denoiser._noisereduce_filter: the external delegate, called once with the
\* leading 0.5 s as the noise clip.  It either raises or returns a buffer of
\* the same length.
noisereduce_filter(b, sr, delegate_raises) ==
    IF delegate_raises
    THEN Raise("DelegateFailure", b, <<"reduce_noise">>)
    ELSE Ok([ b EXCEPT !.suppressed = TRUE, !.mem = "reduce_noise" ], <<"reduce_noise">>)

\* ------------------------------------------------------- adaptive
\* The power of the points of a[2] up to point a[3] in the spectrum a[1]:
\* the sum of Weight(t) * mag[t]^2.
PowerUpTo[a \in AnySpectrum \X (SUBSET Points) \X Points] ==
    LET mag == a[1]
        k == a[3]
        term == IF k \in a[2]
                THEN QMul(<<Weight(k), 1>>, QMul(mag[k], mag[k]))
                ELSE Zero
    IN  IF k = 0 THEN term ELSE QAdd(PowerUpTo[<<mag, a[2], k - 1>>], term)

SumPower(mag, T) == PowerUpTo[<<mag, T, 5>>]

\* Denoiser._estimate_noise_level: the share of the power at |freq| > 0.3 in
\* the total power, 0 for a buffer without power, at most 1.
estimate_noise_level(b) ==
    LET mask_high == { t \in Points : t > 3 }
        power_total == SumPower(b.mag, Points)
        power_high == SumPower(b.mag, mask_high)
        noise_ratio == IF QLess(Zero, power_total)
                       THEN Q(power_high[1] * power_total[2],
                              power_high[2] * power_total[1])
                       ELSE Zero
    IN  IF QLeq(noise_ratio, One) THEN noise_ratio ELSE One

LowThreshold == <<5, 100>>
HighThreshold == <<15, 100>>

\* Mutant: the band-pass output is never returned as it is; a low noise
\* level is treated as a medium one.
BranchWithoutLow(noise_level) ==
    IF QLess(noise_level, HighThreshold) THEN "medium" ELSE "high"

\* Mutant: the thresholds belong to the range below them.
BranchInclusive(noise_level) ==
    IF QLeq(noise_level, LowThreshold) THEN "low"
    ELSE IF QLeq(noise_level, HighThreshold) THEN "medium"
    ELSE "high"

\* The branch Denoiser._adaptive_denoise takes for a noise level.
Branch(noise_level) ==
    IF QLess(noise_level, LowThreshold) THEN "low"
    ELSE IF QLess(noise_level, HighThreshold) THEN "medium"
    ELSE "high"

\* ------------------------------------------------------------- inputs
Spectrum(p0, p1, p2, p3, p4, p5) ==
    [ t \in Points |->
        <<CASE t = 0 -> p0 [] t = 1 -> p1 [] t = 2 -> p2 [] t = 3 -> p3
            [] t = 4 -> p4 [] OTHER -> p5, 1>> ]

\* Spectra with a low, a medium and a high share of high-frequency power,
\* two at the thresholds 0.05 and 0.15 once DC and Nyquist are filtered out,
\* one with power only outside the speech band.
Spectra ==
    { Spectrum(0, 8, 8, 0, 1, 0), Spectrum(0, 3, 0, 0, 1, 0),
      Spectrum(0, 0, 1, 0, 1, 0), Spectrum(2, 3, 3, 1, 1, 4),
      Spectrum(1, 7, 1, 1, 3, 1), Spectrum(5, 0, 0, 0, 0, 5) }

\* The leading segment of a recording holds its noise floor.
NoiseFloor(mag) == [ t \in Points |-> IF QLess(One, mag[t]) THEN One ELSE mag[t] ]

EmptyBuffer == Buffer(0, 0, 0, ZeroSpectrum, ZeroSpectrum)

Lens == { 20, 40, 20000 }
Sils == { 0, 8 }

Buffers ==
    { EmptyBuffer }
    \cup { Buffer(len, sil, 0, ZeroSpectrum, ZeroSpectrum) : len \in Lens, sil \in { 0 } }
    \cup { Buffer(len, sil, 500, mag, NoiseFloor(mag)) :
             len \in Lens, sil \in Sils, mag \in Spectra }

SampleRates == { 8000, 16000 }

\* What a caller passes as audio: an array, or a file path or bytes that
\* may or may not decode; sr is the rate the file was recorded at.
Array(b) == [ kind |-> "array", loadable |-> TRUE, sr |-> 0, buf |-> b ]
File(kind, sr, b) == [ kind |-> kind, loadable |-> TRUE, sr |-> sr, buf |-> b ]
BadFile(kind) == [ kind |-> kind, loadable |-> FALSE, sr |-> 0, buf |-> EmptyBuffer ]

FileBuffers == { b \in Buffers : b.len \in { 0, 20000 } }

AudioArgs ==
    { Array(b) : b \in Buffers }
    \cup { File("path", r, b) : r \in SampleRates, b \in FileBuffers }
    \cup { File("bytes", 16000, b) : b \in FileBuffers }
    \cup { BadFile("path"), BadFile("bytes") }

BandpassKwargs ==
    { NoKwargs, Kwargs(Absent, Absent, 5, "male"), Kwargs(Absent, Absent, 5, "female"),
      Kwargs(Absent, Absent, 5, "child"), Kwargs(Some(9000), Some(8000), 5, "broadband"),
      Kwargs(Some(300), Some(3400), 5, "broadband"),
      Kwargs(Some(0), Some(4000), 5, "broadband"),
      Kwargs(Some(40), Some(8000), 5, "broadband"),
      Kwargs(Absent, Some(45), 5, "broadband"), Kwargs(Some(200), Absent, 5, "male"),
      Kwargs(Some(7999), Some(8000), 5, "female"),
      Kwargs(Absent, Absent, 0, "broadband"), Kwargs(Absent, Absent, 0 - 1, "broadband"),
      Kwargs(Some(9000), Some(8000), 0, "broadband") }

\* The transform parameters and noise durations of the calls of the spectral
\* methods: the defaults, an FFT size and a hop length below 1, a hop length
\* that equals and one that exceeds the FFT size, a zero and a negative
\* noise duration.
TransformKwargs ==
    { NoKwargs, SpectralKwargs(0, 512, 5), SpectralKwargs(2048, 0, 5),
      SpectralKwargs(512, 512, 5), SpectralKwargs(512, 1024, 5) }

SubtractionKwargs ==
    TransformKwargs \cup { SpectralKwargs(2048, 512, 0), SpectralKwargs(2048, 512, 0 - 5) }

MethodArgs == get_available_methods \cup { None, "", "denoise" }

\* A denoise call: the instance, the arguments, and what the libraries
\* under it will do: whether the delegate raises, and whether the transform
\* of an empty noise segment raises.
Args(i, audio, sr, method, kwargs, delegate_raises) ==
    [ inst |-> i, audio |-> audio, sr |-> sr, method |-> method,
      kwargs |-> kwargs, delegate_raises |-> delegate_raises,
      empty_stft_raises |-> FALSE ]

NoArgs == Args(1, Array(EmptyBuffer), 0, None, NoKwargs, FALSE)

\* ------------------------------------------------------------- state
InstIds == { 1, 2 }
CallIds == 1 .. MaxCalls

VARIABLES
    inst,    \* the Denoiser instances: their fields
    call,    \* the denoise calls in progress: their local variables
    num,     \* one evaluation of a pure function: its operands and result
    batch,   \* the batch driver: its files, futures, workers and results
    http,    \* the HTTP API: the request in hand, the directories, the response
    bot      \* the Telegram bot: the users' states, the updates, the temp directory

vars == <<inst, call, num, batch, http, bot>>

\* What a denoise call leaves alone.
NotCall == <<inst, num, batch, http, bot>>

IdleCall ==
    [ pc |-> "idle", args |-> NoArgs, method |-> None, audio_data |-> EmptyBuffer,
      orig_sr |-> 0, original_shape |-> 0, denoised_audio |-> New(EmptyBuffer, "unset"),
      trace |-> <<>>, noise_level |-> Zero, branch |-> None, err |-> "none",
      result |-> {} ]

\* `method or self.default_method`: None and the empty string are falsy.
ResolveMethod(self, method) ==
    IF method = None \/ method = "" THEN self.default_method ELSE method

\* Mutant: an array is taken at the rate the caller names, without
\* resampling.
AcquireAtGivenRate(self, audio, sr) ==
    IF audio.kind \in { "path", "bytes" }
    THEN load_audio(audio, self.target_sr)
    ELSE [ err |-> "none", buf |-> audio.buf, stages |-> <<>>,
           sr |-> IF sr = 0 THEN self.target_sr ELSE sr ]

\* Lines 119-129 of Denoiser.denoise: audio_data, orig_sr.  A path or bytes
\* is loaded at the target rate, an array is resampled when its rate
\* (`sr or self.target_sr`, sr = 0 standing for None) differs, and orig_sr
\* becomes the target rate.
Acquire(self, audio, sr) ==
    IF audio.kind \in { "path", "bytes" }
    THEN load_audio(audio, self.target_sr)
    ELSE LET orig_sr == IF sr = 0 THEN self.target_sr ELSE sr
         IN  IF orig_sr # self.target_sr
             THEN [ err |-> "none",
                    buf |-> resample_audio(audio.buf, orig_sr, self.target_sr),
                    stages |-> <<"resample">>, sr |-> self.target_sr ]
             ELSE [ err |-> "none", buf |-> audio.buf, stages |-> <<>>, sr |-> orig_sr ]

Fail(c, e, stages) ==
    call' = [ call EXCEPT ![c].pc = "failed", ![c].err = e,
                          ![c].trace = @ \o stages ]

\* Mutant: the call keeps the method it resolved as the instance's default.
BeginKeepingMethod(c, a) ==
    /\ call[c].pc = "idle"
    /\ LET self == inst[a.inst]
           got == Acquire(self, a.audio, a.sr)
       IN  call' = [ call EXCEPT ![c] =
                [ IdleCall EXCEPT !.pc = IF got.err # "none" THEN "failed" ELSE "dispatch",
                    !.args = a, !.method = ResolveMethod(self, a.method),
                    !.audio_data = got.buf, !.orig_sr = got.sr,
                    !.original_shape = got.buf.len, !.err = got.err,
                    !.trace = got.stages ] ]
    /\ inst' = [ inst EXCEPT ![a.inst].default_method =
                    ResolveMethod(inst[a.inst], a.method) ]
    /\ UNCHANGED <<num, batch, http, bot>>

\* Denoiser.denoise, lines 113-132.
Begin(c, a) ==
    /\ call[c].pc = "idle"
    /\ LET self == inst[a.inst]
           got == Acquire(self, a.audio, a.sr)
       IN  IF got.err # "none"
           THEN call' = [ call EXCEPT ![c] =
                    [ IdleCall EXCEPT !.pc = "failed", !.args = a,
                        !.method = ResolveMethod(self, a.method),
                        !.err = got.err, !.trace = got.stages ] ]
           ELSE call' = [ call EXCEPT ![c] =
                    [ IdleCall EXCEPT !.pc = "dispatch", !.args = a,
                        !.method = ResolveMethod(self, a.method),
                        !.audio_data = got.buf, !.orig_sr = got.sr,
                        !.original_shape = got.buf.len, !.trace = got.stages ] ]
    /\ UNCHANGED NotCall

\* Denoiser.denoise, lines 134-151: the if/elif chain over the method name.
Dispatch(c) ==
    /\ call[c].pc = "dispatch"
    /\ IF call[c].method \in get_available_methods
       THEN call' = [ call EXCEPT ![c].pc =
                        IF call[c].method = METHOD_ADAPTIVE THEN "stage1"
                        ELSE call[c].method ]
       ELSE Fail(c, "UnknownMethod", <<>>)
    /\ UNCHANGED NotCall

\* A method stage that ran: its output becomes denoised_audio and the call
\* goes on at `next`, or the error ends the call.
Ran(c, out, next) ==
    \E o \in { out } :
        IF o.err # "none"
        THEN Fail(c, o.err, o.stages)
        ELSE call' = [ call EXCEPT ![c].pc = next, ![c].denoised_audio = o.buf,
                                   ![c].trace = @ \o o.stages ]

RunBandpass(c) ==
    /\ call[c].pc = METHOD_BANDPASS
    /\ LET k == call[c].args.kwargs
       IN  Ran(c, bandpass_filter(call[c].audio_data, call[c].orig_sr, k.lowcut,
                                  k.highcut, k.order, k.voice_type), "normalize")
    /\ UNCHANGED NotCall

RunSpectralSubtraction(c) ==
    /\ call[c].pc = METHOD_SPECTRAL_SUBTRACTION
    /\ Ran(c, denoiser_spectral_subtraction(call[c].audio_data, call[c].orig_sr,
                                            call[c].args.kwargs,
                                            call[c].args.empty_stft_raises),
           "normalize")
    /\ UNCHANGED NotCall

RunWiener(c) ==
    /\ call[c].pc = METHOD_WIENER
    /\ Ran(c, wiener_filter(call[c].audio_data, call[c].orig_sr, call[c].args.kwargs),
           "normalize")
    /\ UNCHANGED NotCall

RunNoisereduce(c) ==
    /\ call[c].pc = METHOD_NOISEREDUCE
    /\ Ran(c, noisereduce_filter(call[c].audio_data, call[c].orig_sr,
                                 call[c].args.delegate_raises), "normalize")
    /\ UNCHANGED NotCall

\* Mutant: the pre-filter is run a second time on its own output.
AdaptiveStage1Twice(c) ==
    /\ call[c].pc = "stage1"
    /\ Ran(c, bandpass_filter(IF call[c].denoised_audio.mem = "unset"
                              THEN call[c].audio_data ELSE call[c].denoised_audio,
                              call[c].orig_sr, Absent, Absent, 5, "broadband"),
           IF call[c].denoised_audio.mem = "unset" THEN "stage1" ELSE "estimate")
    /\ UNCHANGED NotCall

\* Denoiser._adaptive_denoise, line 417: the broadband band-pass.
AdaptiveStage1(c) ==
    /\ call[c].pc = "stage1"
    /\ Ran(c, bandpass_filter(call[c].audio_data, call[c].orig_sr, Absent, Absent,
                              5, "broadband"), "estimate")
    /\ UNCHANGED NotCall

\* Mutant: an instance whose default method is not the adaptive one measures
\* the noise level on the unfiltered input.
AdaptiveEstimateByInstance(c) ==
    /\ call[c].pc = "estimate"
    /\ \E noise_level \in
            { IF inst[call[c].args.inst].default_method = METHOD_ADAPTIVE
              THEN estimate_noise_level(call[c].denoised_audio)
              ELSE estimate_noise_level(call[c].audio_data) } :
           call' = [ call EXCEPT
                       ![c].noise_level = noise_level,
                       ![c].branch = Branch(noise_level),
                       ![c].trace = @ \o <<"estimate">>,
                       ![c].pc = IF Branch(noise_level) = "low" THEN "normalize"
                                 ELSE "stage2" ]
    /\ UNCHANGED NotCall

\* Denoiser._adaptive_denoise, lines 420-430: the noise level of the stage-1
\* output and the branch; the low branch returns the stage-1 output.
AdaptiveEstimate(c) ==
    /\ call[c].pc = "estimate"
    /\ \E noise_level \in { estimate_noise_level(call[c].denoised_audio) } :
           call' = [ call EXCEPT
                       ![c].noise_level = noise_level,
                       ![c].branch = Branch(noise_level),
                       ![c].trace = @ \o <<"estimate">>,
                       ![c].pc = IF Branch(noise_level) = "low" THEN "normalize"
                                 ELSE "stage2" ]
    /\ UNCHANGED NotCall

\* Mutant: the delegate follows the spectral subtraction in the medium
\* branch too.
AdaptiveStage2ThenDelegate(c) ==
    /\ call[c].pc = "stage2"
    /\ Ran(c, denoiser_spectral_subtraction(call[c].denoised_audio, call[c].orig_sr,
                                            NoKwargs, FALSE), "stage3")
    /\ UNCHANGED NotCall

\* Denoiser._adaptive_denoise, lines 432 and 437: spectral subtraction of the
\* stage-1 output; the medium branch returns its output.
AdaptiveStage2(c) ==
    /\ call[c].pc = "stage2"
    /\ Ran(c, denoiser_spectral_subtraction(call[c].denoised_audio, call[c].orig_sr,
                                            NoKwargs, FALSE),
           IF call[c].branch = "medium" THEN "normalize" ELSE "stage3")
    /\ UNCHANGED NotCall

\* Denoiser._adaptive_denoise, line 438: the delegate on the stage-2 output.
AdaptiveStage3(c) ==
    /\ call[c].pc = "stage3"
    /\ Ran(c, noisereduce_filter(call[c].denoised_audio, call[c].orig_sr,
                                 call[c].args.delegate_raises), "normalize")
    /\ UNCHANGED NotCall

\* Denoiser.denoise, line 154.
Normalize(c) ==
    /\ call[c].pc = "normalize"
    /\ call' = [ call EXCEPT ![c].pc = "trim",
                             ![c].denoised_audio = normalize_audio(@),
                             ![c].trace = @ \o <<"normalize">> ]
    /\ UNCHANGED NotCall

\* Denoiser.denoise, line 157.
Trim(c) ==
    /\ call[c].pc = "trim"
    /\ call' = [ call EXCEPT ![c].pc = "return",
                             ![c].denoised_audio = trim_silence(@),
                             ![c].trace = @ \o <<"trim">> ]
    /\ UNCHANGED NotCall

ProcessingTimes == { 1, 2 }

\* Mutant: the result names the last filter the adaptive method applied.
DenoiseResultLastFilter(x, processing_time) ==
    [ audio |-> x.denoised_audio, sample_rate |-> x.orig_sr,
      method |-> IF x.branch = "low" THEN METHOD_BANDPASS
                 ELSE IF x.branch = "medium" THEN METHOD_SPECTRAL_SUBTRACTION
                 ELSE IF x.branch = "high" THEN METHOD_NOISEREDUCE
                 ELSE x.method,
      processing_time |-> processing_time, original_shape |-> x.original_shape,
      denoised_shape |-> x.denoised_audio.len ]

\* The dictionary Denoiser.denoise returns, lines 165-172.
DenoiseResult(x, processing_time) ==
    [ audio |-> x.denoised_audio, sample_rate |-> x.orig_sr, method |-> x.method,
      processing_time |-> processing_time, original_shape |-> x.original_shape,
      denoised_shape |-> x.denoised_audio.len ]

\* Denoiser.denoise, lines 160-172.
Return(c) ==
    /\ call[c].pc = "return"
    /\ \E processing_time \in ProcessingTimes :
         call' = [ call EXCEPT ![c].pc = "returned",
                               ![c].result = { DenoiseResult(call[c], processing_time) } ]
    /\ UNCHANGED NotCall

\* The caller drops a finished call; another may follow.
Forget(c) ==
    /\ call[c].pc \in { "returned", "failed" }
    /\ call' = [ call EXCEPT ![c] = IdleCall ]
    /\ UNCHANGED NotCall

Step(c) ==
    \/ Dispatch(c)
    \/ RunBandpass(c)
    \/ RunSpectralSubtraction(c)
    \/ RunWiener(c)
    \/ RunNoisereduce(c)
    \/ AdaptiveStage1(c)
    \/ AdaptiveEstimate(c)
    \/ AdaptiveStage2(c)
    \/ AdaptiveStage3(c)
    \/ Normalize(c)
    \/ Trim(c)
    \/ Return(c)
    \/ Forget(c)

\* ------------------------------------------------- the call as a whole
\* Denoiser._adaptive_denoise(audio, sr): the band-pass, the noise level of
\* its output and, from the medium branch on, spectral subtraction and, in
\* the high branch, the delegate.
adaptive_denoise(b, sr, delegate_raises) ==
    LET s1 == bandpass_filter(b, sr, Absent, Absent, 5, "broadband")
        noise_level == estimate_noise_level(s1.buf)
        s2 == denoiser_spectral_subtraction(s1.buf, sr, NoKwargs, FALSE)
        s3 == noisereduce_filter(s2.buf, sr, delegate_raises)
    IN  IF s1.err # "none" THEN s1
        ELSE IF Branch(noise_level) = "low" THEN s1
        ELSE IF s2.err # "none" \/ Branch(noise_level) = "medium" THEN s2
        ELSE s3

\* Denoiser.denoise(audio, sr, method, **kwargs) run from its first line to
\* its last: the error it raises ("none" when it returns) and the fields of
\* the result other than the processing time.
denoise(self, a) ==
    LET method == ResolveMethod(self, a.method)
        got == Acquire(self, a.audio, a.sr)
        orig_sr == got.sr
        k == a.kwargs
        out == CASE method = METHOD_BANDPASS ->
                      bandpass_filter(got.buf, orig_sr, k.lowcut, k.highcut, k.order,
                                      k.voice_type)
                 [] method = METHOD_SPECTRAL_SUBTRACTION ->
                      denoiser_spectral_subtraction(got.buf, orig_sr, k,
                                                    a.empty_stft_raises)
                 [] method = METHOD_WIENER -> wiener_filter(got.buf, orig_sr, k)
                 [] method = METHOD_NOISEREDUCE ->
                      noisereduce_filter(got.buf, orig_sr, a.delegate_raises)
                 [] method = METHOD_ADAPTIVE ->
                      adaptive_denoise(got.buf, orig_sr, a.delegate_raises)
                 [] OTHER -> Raise("UnknownMethod", got.buf, <<>>)
        denoised_audio == trim_silence(normalize_audio(out.buf))
    IN  IF got.err # "none" THEN [ err |-> got.err, result |-> {} ]
        ELSE IF out.err # "none" THEN [ err |-> out.err, result |-> {} ]
        ELSE [ err |-> "none",
               result |-> { [ audio |-> denoised_audio, sample_rate |-> orig_sr,
                              method |-> method, original_shape |-> got.buf.len,
                              denoised_shape |-> denoised_audio.len ] } ]

\* ------------------------------------------------------ batch driver
\* scripts/batch_process.py.  A file is its name and whether denoise_file
\* succeeds on it; find_audio_files returns the files found sorted by name,
\* each once.
FileNames == 1 .. MaxFiles

\* The path of file n under the input directory: the odd ones lie in the
\* directory itself, the even ones in a sub-directory, and the files 2k - 1
\* and 2k have the same name.
FilePath(n) ==
    [ parent |-> IF n % 2 = 1 THEN <<>> ELSE <<"sub">>,
      stem |-> (n + 1) \div 2, suffix |-> ".wav" ]

\* find_audio_files, lines 83-94: "**/*.ext" finds the files of the
\* directory and of its sub-directories, "*.ext" those of the directory.
Globbed(names, recursive) == { n \in names : recursive \/ FilePath(n).parent = <<>> }

\* process_single_file, line 117: the output file of input file n,
\* output_dir / "{stem}_denoised{suffix}".
OutputFile(n) == <<FilePath(n).stem, "_denoised", FilePath(n).suffix>>

AudioFile(name, ok) == [ name |-> name, ok |-> ok ]

RECURSIVE find_audio_files(_, _)
find_audio_files(names, ok) ==
    IF names = {} THEN <<>>
    ELSE LET first == CHOOSE n \in names : \A m \in names : n <= m
         IN  <<AudioFile(first, ok[first])>> \o find_audio_files(names \ { first }, ok)

\* The text of the exception denoise_file raises on a file.
ErrorText(name) == <<"error", name>>

\* process_single_file: the record of one file, a success with the output
\* file or a failure with the error text.
process_single_file(input_file, method) ==
    IF input_file.ok
    THEN [ input_file |-> input_file.name, output_file |-> { OutputFile(input_file.name) },
           method |-> method, success |-> TRUE, error |-> None ]
    ELSE [ input_file |-> input_file.name, output_file |-> {},
           method |-> method, success |-> FALSE, error |-> ErrorText(input_file.name) ]

NoRecord == [ input_file |-> 0, output_file |-> {}, method |-> None,
              success |-> FALSE, error |-> None ]

Successful(results) == Cardinality({ k \in 1 .. Len(results) : results[k].success })

\* main, lines 234-279: the files are looked up; without files main returns
\* 1, with --dry-run it lists them and returns 0, and ThreadPoolExecutor
\* rejects a worker count below 1.
BatchMain ==
    /\ batch.pc = "none"
    /\ \E names \in SUBSET FileNames, ok \in [ FileNames -> BOOLEAN ],
          workers \in 0 .. MaxWorkers, dry_run \in BOOLEAN, report \in BOOLEAN,
          recursive \in BOOLEAN :
         LET audio_files == find_audio_files(Globbed(names, recursive), ok)
         IN  batch' = [ pc |-> IF audio_files = <<>> THEN "no_files"
                               ELSE IF dry_run THEN "dry_run"
                               ELSE IF workers < 1 THEN "executor_error"
                               ELSE "submit",
                        audio_files |-> audio_files, method |-> METHOD_NOISEREDUCE,
                        workers |-> workers, report |-> report,
                        futures |-> <<>>,
                        records |-> [ k \in 1 .. Len(audio_files) |-> NoRecord ],
                        results |-> <<>>, successful |-> 0, failed |-> 0 ]
    /\ UNCHANGED <<inst, call, num, http, bot>>

\* main, lines 284-293: one task per file, in the order of the files.
BatchSubmit ==
    /\ batch.pc = "submit"
    /\ batch' = [ batch EXCEPT
                    !.futures = Append(@, "pending"),
                    !.pc = IF Len(batch.futures) + 1 = Len(batch.audio_files)
                           THEN "collect" ELSE "submit" ]
    /\ UNCHANGED <<inst, call, num, http, bot>>

Running == { k \in 1 .. Len(batch.futures) : batch.futures[k] = "running" }

\* A free worker thread takes the oldest task of the executor's queue.
WorkerTake(k) ==
    /\ batch.pc \in { "submit", "collect" }
    /\ k \in 1 .. Len(batch.futures)
    /\ batch.futures[k] = "pending"
    /\ \A j \in 1 .. k - 1 : batch.futures[j] # "pending"
    /\ Cardinality(Running) < batch.workers
    /\ batch' = [ batch EXCEPT !.futures[k] = "running" ]
    /\ UNCHANGED <<inst, call, num, http, bot>>

\* The worker runs process_single_file on its file and completes the future.
WorkerFinish(k) ==
    /\ batch.pc \in { "submit", "collect" }
    /\ k \in Running
    /\ batch' = [ batch EXCEPT
                    !.futures[k] = "done",
                    !.records[k] = process_single_file(batch.audio_files[k],
                                                       batch.method) ]
    /\ UNCHANGED <<inst, call, num, http, bot>>

\* Mutant: the collection stops at the first failed file.
BatchCollectUntilFailure ==
    /\ batch.pc = "collect"
    /\ batch.futures[Len(batch.results) + 1] = "done"
    /\ LET result == batch.records[Len(batch.results) + 1]
       IN  batch' = [ batch EXCEPT
                        !.results = Append(@, result),
                        !.pc = IF Len(batch.results) + 1 = Len(batch.futures)
                                  \/ ~result.success
                               THEN "stats" ELSE "collect" ]
    /\ UNCHANGED <<inst, call, num, http, bot>>

\* main, lines 296-311: the results of the futures are awaited and appended
\* in the order of submission.
BatchCollect ==
    /\ batch.pc = "collect"
    /\ batch.futures[Len(batch.results) + 1] = "done"
    /\ LET result == batch.records[Len(batch.results) + 1]
       IN  batch' = [ batch EXCEPT
                        !.results = Append(@, result),
                        !.pc = IF Len(batch.results) + 1 = Len(batch.futures)
                               THEN "stats" ELSE "collect" ]
    /\ UNCHANGED <<inst, call, num, http, bot>>

\* main, lines 319-343: the counts; with --report create_report is called,
\* which takes .parent of the input file's name, a str, and raises.
BatchStats ==
    /\ batch.pc = "stats"
    /\ batch' = [ batch EXCEPT
                    !.successful = Successful(batch.results),
                    !.failed = Len(batch.results) - Successful(batch.results),
                    !.pc = IF batch.report THEN "report_error" ELSE "done" ]
    /\ UNCHANGED <<inst, call, num, http, bot>>

\* -------------------------------------------------- per-bin formulas
\* The operands of one bin of one frame: floating-point numbers, the
\* magnitude and the noise non-negative, the over-subtraction factor of
\* either sign, the spectral floor non-negative.
Magnitudes == { Fl(<<n, 2>>) : n \in 0 .. 2 * MaxMag }
NoiseValues == { Zero, Fl(<<1, 100>>), Fl(<<1, 2>>), One, Fl(<<3, 1>>), Fl(<<40, 1>>) }
OverSubtractions == { Round(0 - 2, 1), Zero, DefaultOver, Fl(<<40, 1>>) }
SpectralFloors == { Zero, DefaultFloor, Fl(<<1, 2>>), One, Fl(<<2, 1>>) }

Operands(magnitude, noise, over_subtraction, spectral_floor) ==
    [ kernel |-> "operands", magnitude |-> magnitude, noise |-> noise,
      over_subtraction |-> over_subtraction, spectral_floor |-> spectral_floor,
      out |-> Zero ]

\* STFTUtils.spectral_subtraction on the bin, noise as its noise profile.
ApplySpectralSubtraction ==
    /\ num.kernel = "operands"
    /\ num' = [ num EXCEPT
                  !.kernel = "spectral_subtraction",
                  !.out = spectral_subtraction(num.magnitude, num.noise,
                                               num.over_subtraction, num.spectral_floor) ]
    /\ UNCHANGED <<inst, call, batch, http, bot>>

\* The Wiener gain of the bin, lines 341-346: magnitude ** 2 against noise
\* as its noise PSD.
ApplyWiener ==
    /\ num.kernel = "operands"
    /\ num' = [ num EXCEPT
                  !.kernel = "wiener",
                  !.out = wiener_weights(FMul(num.magnitude, num.magnitude), num.noise) ]
    /\ UNCHANGED <<inst, call, batch, http, bot>>

\* ------------------------------------------- normalisation of samples
\* The absolute value of a sample, and np.clip(a, -1.0, 1.0).
QAbs(a) == IF a[1] < 0 THEN Neg[a] ELSE a
Clip(a) == IF QLess(One, a) THEN One ELSE IF QLess(a, Neg[One]) THEN Neg[One] ELSE a

\* np.max(np.abs(audio)) of a non-empty sequence of samples.
CurrentMax(audio) ==
    CHOOSE m \in { QAbs(audio[i]) : i \in DOMAIN audio } :
        \A i \in DOMAIN audio : QLeq(QAbs(audio[i]), m)

\* Mutant: the peak taken as np.max(audio), without the absolute value.
normalize_by_max(audio, target_level) ==
    IF Len(audio) = 0 THEN audio
    ELSE LET current_max == CHOOSE m \in { audio[i] : i \in DOMAIN audio } :
                                \A i \in DOMAIN audio : QLeq(audio[i], m)
         IN  IF QLess(Zero, current_max)
             THEN [ i \in DOMAIN audio |->
                      Clip(FMul(audio[i], FDiv(target_level, current_max))) ]
             ELSE audio

\* AudioIO.normalize_audio(audio, target_level) sample by sample, in the
\* floating point of the samples: audio * (target_level / current_max),
\* clipped to [-1, 1]; an empty or an all-zero buffer is returned as it is.
normalize_samples(audio, target_level) ==
    IF Len(audio) = 0 THEN audio
    ELSE IF QLess(Zero, CurrentMax(audio))
    THEN LET norm_factor == FDiv(target_level, CurrentMax(audio))
         IN  [ i \in DOMAIN audio |-> Clip(FMul(audio[i], norm_factor)) ]
    ELSE audio

\* Samples between -1 and 1, buffers of up to two of them, and target
\* levels in (0, 1], the default 0.9 among them.
Samples == { Round(n, MaxMag) : n \in (0 - MaxMag) .. MaxMag }
SampleBuffers == { <<>> } \cup { <<x>> : x \in Samples } \cup (Samples \X Samples)
TargetLevels == { Fl(<<TargetLevel, 1000>>), Fl(<<1, 2>>), Fl(<<1, 3>>), One }

SampleOperands(audio, target_level) ==
    [ kernel |-> "samples", audio |-> audio, target_level |-> target_level,
      once |-> <<>>, twice |-> <<>> ]

\* normalize_audio applied to the buffer.
NormalizeOnce ==
    /\ num.kernel = "samples"
    /\ num' = [ num EXCEPT !.kernel = "normalized",
                           !.once = normalize_samples(num.audio, num.target_level) ]
    /\ UNCHANGED <<inst, call, batch, http, bot>>

\* normalize_audio applied to its own output.
NormalizeAgain ==
    /\ num.kernel = "normalized"
    /\ num' = [ num EXCEPT !.kernel = "renormalized",
                           !.twice = normalize_samples(num.once, num.target_level) ]
    /\ UNCHANGED <<inst, call, batch, http, bot>>

\* ------------------------------------------------- cutoff resolution
\* The cutoffs and voice profile names a caller of the band-pass filter
\* passes: either edge given or missing, the three profiles, and names and
\* None ("None") outside them.
CutoffArgs == { Absent, Some(0), Some(40), Some(300), Some(9000) }
VoiceTypeArgs == VoiceProfiles \cup { "child", "Male", "", None }

CutoffOperands(lowcut, highcut, voice_type) ==
    [ kernel |-> "cutoffs", lowcut |-> lowcut, highcut |-> highcut,
      voice_type |-> voice_type, low2 |-> 0, high2 |-> 0 ]

\* Denoiser._bandpass_filter, lines 198-201: lowcut and highcut as they stand
\* before the clamping, doubled.
ApplyResolve ==
    /\ num.kernel = "cutoffs"
    /\ num' = [ num EXCEPT
                  !.kernel = "resolved",
                  !.low2 = ResolveLow2(num.lowcut, num.highcut, num.voice_type),
                  !.high2 = ResolveHigh2(num.lowcut, num.highcut, num.voice_type) ]
    /\ UNCHANGED <<inst, call, batch, http, bot>>

\* ------------------------------------------------------------ HTTP API
\* app/api: the routes of the router that app.main includes.
ALLOWED_EXTENSIONS == { ".wav", ".mp3", ".ogg", ".flac", ".m4a", ".aac" }

\* str.lower() on the suffixes that occur.
Lower(ext) == IF ext = ".WAV" THEN ".wav" ELSE ext

\* An uploaded file: its name as <<stem, suffix>> (<<>> when the part has no
\* file name), whether it exceeds MAX_FILE_SIZE_MB, and its content as the
\* denoiser will find it on disk.
Upload(filename, large, audio) == [ filename |-> filename, large |-> large, audio |-> audio ]

SpeechBuffer == Buffer(20000, 0, 500, Spectrum(0, 8, 8, 0, 1, 0), NoiseFloor(Spectrum(0, 8, 8, 0, 1, 0)))
ShortBuffer == Buffer(20, 0, 500, Spectrum(0, 8, 8, 0, 1, 0), NoiseFloor(Spectrum(0, 8, 8, 0, 1, 0)))

Uploads ==
    { Upload(<<"a", ".wav">>, FALSE, File("path", 16000, SpeechBuffer)),
      Upload(<<"b", ".WAV">>, FALSE, File("path", 8000, SpeechBuffer)),
      Upload(<<"c", ".txt">>, FALSE, BadFile("path")),
      Upload(<<>>, FALSE, File("path", 16000, SpeechBuffer)),
      Upload(<<"d", ".wav">>, TRUE, File("path", 16000, SpeechBuffer)),
      Upload(<<"e", ".mp3">>, FALSE, BadFile("path")),
      Upload(<<"a", ".ogg">>, FALSE, File("path", 16000, ShortBuffer)) }

\* The errors of app/api/errors.py that the routes raise, as the fields of
\* the HTTPException they are.
APIError(status_code, error, detail) ==
    [ status_code |-> status_code, error |-> error, detail |-> detail ]
FileTooLargeError == APIError(413, "File too large", "Maximum file size is 50MB")
UnsupportedFormatError == APIError(400, "Unsupported file format", "unsupported format")
ProcessingError == APIError(422, "Audio processing failed", "Failed to process audio")
TooManyFiles == APIError(400, "Too many files", "Maximum files allowed")
NoError == APIError(0, "", "")

\* What the served application answers to a raised APIError.  The handlers
\* api_error_handler and generic_error_handler are registered on the
\* FastAPI object of routes.py, which is never served; app.main includes
\* the router only, so FastAPI's handler of HTTPException answers with the
\* status code and a body that holds the detail.
http_exception_response(exc) ==
    [ status_code |-> exc.status_code, body |-> [ detail |-> exc.detail ] ]

\* An exception that is no HTTPException: the server's plain 500.
InternalServerError == [ status_code |-> 500, body |-> [ text |-> "Internal Server Error" ] ]

\* dependencies.validate_upload_file: the name, the suffix, then the size.
validate_upload_file(file) ==
    IF file.filename = <<>> THEN UnsupportedFormatError
    ELSE IF Lower(file.filename[2]) \notin ALLOWED_EXTENSIONS THEN UnsupportedFormatError
    ELSE IF file.large THEN FileTooLargeError
    ELSE NoError

\* dependencies.get_denoiser
get_denoiser == NewDenoiser(METHOD_ADAPTIVE, 16000)

\* The call of denoiser.denoise that dependencies.process_audio_file makes,
\* lines 128-136: the path of the saved upload, the form's method and sample
\* rate, and voice_type for the band-pass method only.
ProcessArgs(file, method, sample_rate, voice_type) ==
    Args(2, file.audio, sample_rate, method,
         IF method = "bandpass" THEN Kwargs(Absent, Absent, 5, voice_type) ELSE NoKwargs,
         FALSE)

\* dependencies.process_audio_file(file_path, denoiser, method, sample_rate,
\* voice_type), given how denoise ended: the result, resampled when a sample
\* rate is asked for that the result does not have; any exception becomes
\* ProcessingError.
process_audio_file(run, sample_rate) ==
    LET result == The(run.result)
    IN  IF run.err # "none"
        THEN [ err |-> ProcessingError, result |-> {} ]
        ELSE IF sample_rate # 0 /\ sample_rate # result.sample_rate
        THEN [ err |-> NoError,
               result |-> { [ result EXCEPT
                                !.audio = resample_audio(result.audio, result.sample_rate,
                                                         sample_rate),
                                !.sample_rate = sample_rate ] } ]
        ELSE [ err |-> NoError, result |-> { result } ]

\* dependencies.save_processed_audio: the name of the file it writes,
\* "{stem}_{method}.wav".
ProcessedName(file, result) == <<file.filename[1], result.method>>

\* dependencies.save_processed_audio, lines 186-194: AudioIO.save_audio
\* normalises the audio and writes it under the name, in place of a file of
\* that name that the directory holds already.
save_processed_audio(processed, file, result) ==
    { x \in processed : x.name # ProcessedName(file, result) }
    \cup { [ name |-> ProcessedName(file, result),
             audio |-> normalize_audio(result.audio) ] }

\* dependencies.get_audio_info: soundfile and the loader must read the file,
\* and np.max needs a sample.
get_audio_info(file) == file.audio.loadable /\ file.audio.buf.len > 0

\* A request: the endpoint, the uploaded files and the form fields
\* (sample_rate 0 when the field is not sent).
Request(endpoint, audio_files, method, sample_rate, voice_type) ==
    [ pc |-> "request", endpoint |-> endpoint, audio_files |-> audio_files,
      method |-> method, sample_rate |-> sample_rate, voice_type |-> voice_type,
      k |-> 1, results |-> <<>>, download_urls |-> <<>>, temp_files |-> <<>>,
      uploads |-> <<>>, processed |-> {}, denoised |-> <<>>, background |-> <<>>,
      issued |-> {}, requests |-> 1,
      response |-> [ status_code |-> 0, body |-> [ text |-> "" ] ] ]

FormFields ==
    { <<"adaptive", 0, "broadband">>, <<"bandpass", 8000, "male">>,
      <<"spectral_subtraction", 0, "broadband">>, <<"wiener", 16000, "broadband">>,
      <<"noisereduce", 0, "broadband">> }

\* Sequences of up to n uploads.
RECURSIVE UploadLists(_)
UploadLists(n) ==
    IF n = 0 THEN { <<>> }
    ELSE UploadLists(n - 1)
         \cup { Append(l, f) : l \in { x \in UploadLists(n - 1) : Len(x) = n - 1 },
                               f \in Uploads }

Requests ==
    { Request("denoise", <<f>>, x[1], x[2], x[3]) : f \in Uploads, x \in FormFields }
    \cup { Request("batch", l, x[1], x[2], "broadband") :
             l \in UploadLists(MAX_UPLOAD_FILES + 1) \ { <<>> }, x \in FormFields }

HttpReceive ==
    /\ http.pc = "none"
    /\ http' \in Requests
    /\ UNCHANGED <<inst, call, num, batch, bot>>

Respond(response) == [ http EXCEPT !.pc = "responded", !.response = response ]

\* The single-file requests of a client that denoises recordings one after
\* the other: two recordings named a, one named b, and a text file.
QuietBuffer == Buffer(20000, 0, 500, Spectrum(0, 3, 0, 0, 1, 0), NoiseFloor(Spectrum(0, 3, 0, 0, 1, 0)))

StoreRequests ==
    { Request("denoise", <<f>>, m, 0, "broadband") :
        f \in { Upload(<<"a", ".wav">>, FALSE, File("path", 16000, SpeechBuffer)),
                Upload(<<"a", ".flac">>, FALSE, File("path", 16000, QuietBuffer)),
                Upload(<<"b", ".wav">>, FALSE, File("path", 16000, SpeechBuffer)),
                Upload(<<"c", ".txt">>, FALSE, BadFile("path")) },
        m \in { "adaptive", "bandpass" } }

\* The server takes a request; the processed directory and the download
\* URLs handed out so far outlive the requests.
StoreReceive ==
    /\ \/ http.pc = "none"
       \/ http.pc \in { "responded", "cleaned" } /\ http.requests < MaxRequests
    /\ \E r \in StoreRequests :
         http' = IF http.pc = "none" THEN r
                 ELSE [ r EXCEPT !.processed = http.processed, !.issued = http.issued,
                                 !.requests = http.requests + 1 ]
    /\ UNCHANGED <<inst, call, num, batch, bot>>

\* routes.denoise_audio, POST /denoise, lines 76-86: the upload is checked,
\* saved and described; then the denoiser is called.
DenoiseAudio ==
    /\ http.pc = "request"
    /\ http.endpoint = "denoise"
    /\ LET audio_file == http.audio_files[1]
           invalid == validate_upload_file(audio_file)
           saved == [ http EXCEPT !.uploads = Append(@, audio_file) ]
       IN  IF invalid # NoError
           THEN http' = Respond(http_exception_response(invalid))
           ELSE IF ~get_audio_info(audio_file)
           THEN http' = [ saved EXCEPT !.pc = "responded",
                                       !.response = InternalServerError ]
           ELSE http' = [ saved EXCEPT !.pc = "process",
                                       !.denoised = Append(@, audio_file) ]
    /\ UNCHANGED <<inst, call, num, batch, bot>>

\* dependencies.process_audio_file, line 128: denoiser.denoise is entered on
\* the saved upload.
ProcessBegin ==
    /\ http.pc = "process"
    /\ Begin(1, ProcessArgs(http.audio_files[http.k], http.method, http.sample_rate,
                            http.voice_type))

\* The steps of that call, up to its return or its exception.
ProcessStep ==
    /\ http.pc = "process"
    /\ \/ Dispatch(1)
       \/ RunBandpass(1)
       \/ RunSpectralSubtraction(1)
       \/ RunWiener(1)
       \/ RunNoisereduce(1)
       \/ AdaptiveStage1(1)
       \/ AdaptiveEstimate(1)
       \/ AdaptiveStage2(1)
       \/ AdaptiveStage3(1)
       \/ Normalize(1)
       \/ Trim(1)
       \/ Return(1)

\* How the call of denoise ended.
Ended == [ err |-> call[1].err, result |-> call[1].result ]

\* routes.denoise_audio, lines 88-119: the result is saved, the cleanup of the
\* upload is scheduled and the response is built.
DenoiseAudioRespond ==
    /\ http.pc = "process"
    /\ http.endpoint = "denoise"
    /\ call[1].pc \in { "returned", "failed" }
    /\ LET audio_file == http.audio_files[1]
           run == process_audio_file(Ended, http.sample_rate)
           result == The(run.result)
       IN  IF run.err # NoError
           THEN http' = Respond(http_exception_response(run.err))
           ELSE http' = [ http EXCEPT
                            !.pc = "responded",
                            !.processed = save_processed_audio(@, audio_file, result),
                            !.issued = @ \cup { [ download_url |->
                                                      ProcessedName(audio_file, result),
                                                  audio |-> normalize_audio(result.audio) ] },
                            !.background = <<audio_file>>,
                            !.response =
                                [ status_code |-> 200,
                                  body |-> [ filename |-> ProcessedName(audio_file, result),
                                             method |-> result.method,
                                             download_url |->
                                                 ProcessedName(audio_file, result) ] ] ]
    /\ call' = [ call EXCEPT ![1] = IdleCall ]
    /\ UNCHANGED <<inst, num, batch, bot>>

\* routes.denoise_batch, lines 138-148: the number of files is checked.
DenoiseBatchOpen ==
    /\ http.pc = "request"
    /\ http.endpoint = "batch"
    /\ IF Len(http.audio_files) > MAX_UPLOAD_FILES
       THEN http' = Respond(http_exception_response(TooManyFiles))
       ELSE http' = [ http EXCEPT !.pc = "loop" ]
    /\ UNCHANGED <<inst, call, num, batch, bot>>

\* The entry of results for a file whose turn raised e.
FailedEntry(audio_file, e) ==
    [ filename |-> audio_file.filename, status |-> "failed", error |-> e.detail ]

\* Mutant: the first file that fails ends the loop.
AfterLastFile == Len(http.audio_files) + 1

\* routes.denoise_batch, lines 150 and 182-189: the exception of a file is
\* caught inside the loop, which goes on with the next file.
NextFile == http.k + 1

\* routes.denoise_batch, lines 150-157: one turn of the loop over the files,
\* up to the call of the denoiser.
DenoiseBatchFile ==
    /\ http.pc = "loop"
    /\ http.k <= Len(http.audio_files)
    /\ LET audio_file == http.audio_files[http.k]
           invalid == validate_upload_file(audio_file)
       IN  IF invalid # NoError
           THEN http' = [ http EXCEPT !.k = NextFile,
                                      !.results = Append(@, FailedEntry(audio_file, invalid)) ]
           ELSE http' = [ http EXCEPT !.pc = "process",
                                      !.uploads = Append(@, audio_file),
                                      !.temp_files = Append(@, audio_file),
                                      !.denoised = Append(@, audio_file) ]
    /\ UNCHANGED <<inst, call, num, batch, bot>>

\* routes.denoise_batch, lines 159-189: the rest of the turn, once the
\* denoiser returned or raised.
DenoiseBatchFileDone ==
    /\ http.pc = "process"
    /\ http.endpoint = "batch"
    /\ call[1].pc \in { "returned", "failed" }
    /\ LET audio_file == http.audio_files[http.k]
           run == process_audio_file(Ended, http.sample_rate)
           result == The(run.result)
       IN  IF run.err # NoError
           THEN http' = [ http EXCEPT !.pc = "loop", !.k = NextFile,
                                      !.results = Append(@, FailedEntry(audio_file, run.err)) ]
           ELSE http' = [ http EXCEPT
                            !.pc = "loop",
                            !.k = @ + 1,
                            !.processed = save_processed_audio(@, audio_file, result),
                            !.download_urls = Append(@, ProcessedName(audio_file, result)),
                            !.results = Append(@,
                                [ filename |-> audio_file.filename, status |-> "success",
                                  processed_filename |->
                                      ProcessedName(audio_file, result) ]) ]
    /\ call' = [ call EXCEPT ![1] = IdleCall ]
    /\ UNCHANGED <<inst, num, batch, bot>>

\* routes.denoise_batch, lines 191-206: the cleanup is scheduled and the
\* response is built from the results.
DenoiseBatchRespond ==
    /\ http.pc = "loop"
    /\ http.k > Len(http.audio_files)
    /\ LET status(st) == { i \in DOMAIN http.results : http.results[i].status = st }
       IN  http' = [ http EXCEPT
                       !.pc = "responded",
                       !.background = http.temp_files,
                       !.response =
                           [ status_code |-> 200,
                             body |-> [ total_files |-> Len(http.audio_files),
                                        processed_files |-> Cardinality(status("success")),
                                        failed_files |-> Cardinality(status("failed")),
                                        results |-> http.results,
                                        download_urls |-> http.download_urls ] ] ]
    /\ UNCHANGED <<inst, call, num, batch, bot>>

\* routes.cleanup_temp_file, run for every scheduled file once the response
\* is sent: the uploaded copies are removed.
CleanupTempFiles ==
    /\ http.pc = "responded"
    /\ http.background # <<>>
    /\ http' = [ http EXCEPT !.pc = "cleaned", !.background = <<>>,
                             !.uploads = SelectSeq(@, LAMBDA f :
                                 \A i \in DOMAIN http.background : http.background[i] # f) ]
    /\ UNCHANGED <<inst, call, num, batch, bot>>

\* -------------------------------------------------------- Telegram bot
\* bot/handlers.py and bot/utils.py.  The handlers are coroutines over the
\* module-level USER_STATES; a handler is one action per stretch of code
\* between two awaits.  The application that dispatches the updates is a
\* library outside the sources: the updates are taken in their order, and
\* the handler of an update may start while the handler of an earlier update
\* is suspended at an await, as under an application that processes updates
\* concurrently.
MaxUpdates == 2
UserIds == { 1, 2 }
Timestamps == { 1, 2 }
SUPPORTED_FORMATS == { ".wav", ".mp3", ".ogg", ".flac", ".m4a", ".aac" }

\* get_user_state's fresh entry (the fields the audio handler uses).
NewUserState == [ known |-> TRUE, processing |-> FALSE, current_file |-> Absent ]
NoUserState == [ known |-> FALSE, processing |-> FALSE, current_file |-> Absent ]

\* handlers.get_user_state: the entry is created on first use.
get_user_state(states, user_id) ==
    IF states[user_id].known THEN states ELSE [ states EXCEPT ![user_id] = NewUserState ]

\* handlers.set_user_state
set_user_state(states, user_id, key, value) ==
    [ get_user_state(states, user_id) EXCEPT ![user_id][key] = value ]

\* The messages that reach the audio handler: a voice message, an audio
\* with its file name, a document of an audio MIME type without a file
\* name; large says the file exceeds MAX_FILE_SIZE_MB.
AudioMessages ==
    { [ kind |-> "voice", file_name |-> <<>>, large |-> FALSE ],
      [ kind |-> "audio", file_name |-> <<"song", ".mp3">>, large |-> TRUE ],
      [ kind |-> "audio", file_name |-> <<>>, large |-> FALSE ],
      [ kind |-> "document", file_name |-> <<>>, large |-> FALSE ] }

\* download_file_from_message's choice of the file name.
MessageFilename(message) ==
    CASE message.kind = "voice" -> <<"voice_message", ".ogg">>
      [] message.kind = "audio" ->
            IF message.file_name # <<>> THEN message.file_name ELSE <<"audio_file", ".mp3">>
      [] OTHER ->
            IF message.file_name # <<>> THEN message.file_name ELSE <<"audio_file", "">>

\* utils.generate_temp_filename: the name is a function of the user, the
\* original file name and the second of the clock.
generate_temp_filename(original_filename, user_id, timestamp) ==
    <<user_id, original_filename, timestamp>>

\* utils.validate_file_extension
validate_file_extension(filename) == Lower(filename[2]) \in SUPPORTED_FORMATS

NewUpdate(handler, user_id, message) ==
    [ handler |-> handler, user_id |-> user_id, message |-> message, pc |-> "queued",
      filename |-> <<>>, file_path |-> Absent, downloaded |-> FALSE, sent |-> FALSE,
      replies |-> <<>>, exit |-> "none" ]

BotIdle ==
    [ USER_STATES |-> [ user_id \in UserIds |-> NoUserState ], updates |-> <<>>,
      temp |-> {} ]

Updates == DOMAIN bot.updates

\* An update arrives: an audio message or the /cancel command of a user.
BotReceive ==
    /\ Len(bot.updates) < MaxUpdates
    /\ \E user_id \in UserIds :
         \/ \E message \in AudioMessages :
              bot' = [ bot EXCEPT !.updates =
                         Append(@, NewUpdate("handle_audio_message", user_id, message)) ]
         \/ bot' = [ bot EXCEPT !.updates =
                       Append(@, NewUpdate("cancel_command", user_id, [ kind |-> "command" ])) ]
    /\ UNCHANGED <<inst, call, num, batch, http>>

\* The updates are taken from the queue in their order.
Dispatched(u) ==
    /\ bot.updates[u].pc = "queued"
    /\ \A v \in Updates : v < u => bot.updates[v].pc # "queued"

Exit(how) == IF how THEN "returned" ELSE "raised"

\* cancel_command: the user's entry, if there is one, is replaced by an idle
\* one; then the reply is sent.
cancel_command(u) ==
    /\ u \in Updates /\ Dispatched(u)
    /\ bot.updates[u].handler = "cancel_command"
    /\ \E replied \in BOOLEAN :
         bot' = [ bot EXCEPT
                    !.USER_STATES[bot.updates[u].user_id] =
                        IF @.known THEN NewUserState ELSE @,
                    !.updates[u].pc = "done",
                    !.updates[u].replies = IF replied THEN Append(@, "cancelled") ELSE @,
                    !.updates[u].exit = Exit(replied) ]
    /\ UNCHANGED <<inst, call, num, batch, http>>

\* handle_audio_message up to the download: the processing check and its
\* reply.
handle_audio_message(u) ==
    /\ u \in Updates /\ Dispatched(u)
    /\ bot.updates[u].handler = "handle_audio_message"
    /\ LET user_id == bot.updates[u].user_id
           states == get_user_state(bot.USER_STATES, user_id)
       IN  IF states[user_id].processing
           THEN \E replied \in BOOLEAN :
                  bot' = [ bot EXCEPT
                             !.USER_STATES = states,
                             !.updates[u].pc = "done",
                             !.updates[u].replies = IF replied THEN Append(@, "wait") ELSE @,
                             !.updates[u].exit = Exit(replied) ]
           ELSE bot' = [ bot EXCEPT !.USER_STATES = states,
                                    !.updates[u].pc = "download" ]
    /\ UNCHANGED <<inst, call, num, batch, http>>

\* utils.download_file_from_message and the handler's answer when it
\* returns None: the download writes the temp file or raises, and a failed
\* download removes the file at the temp path.
download_file_from_message(u) ==
    /\ u \in Updates
    /\ bot.updates[u].pc = "download"
    /\ \E timestamp \in Timestamps, fetched \in BOOLEAN :
         LET filename == MessageFilename(bot.updates[u].message)
             temp_path == generate_temp_filename(filename, bot.updates[u].user_id,
                                                 timestamp)
         IN  IF fetched
             THEN bot' = [ bot EXCEPT !.temp = @ \cup { temp_path },
                                      !.updates[u].filename = filename,
                                      !.updates[u].file_path = Some(temp_path),
                                      !.updates[u].downloaded = TRUE,
                                      !.updates[u].pc = "validate" ]
             ELSE \E replied \in BOOLEAN :
                    bot' = [ bot EXCEPT
                               !.temp = @ \ { temp_path },
                               !.updates[u].pc = "done",
                               !.updates[u].replies =
                                   IF replied THEN Append(@, "download failed") ELSE @,
                               !.updates[u].exit = Exit(replied) ]
    /\ UNCHANGED <<inst, call, num, batch, http>>

\* The extension and size checks, and the state set before processing;
\* validate_file_size stats the file and raises when it is gone.
ValidateFile(u) ==
    /\ u \in Updates
    /\ bot.updates[u].pc = "validate"
    /\ LET upd == bot.updates[u]
           file_path == The(upd.file_path)
       IN  IF ~validate_file_extension(upd.filename)
           THEN bot' = [ bot EXCEPT !.updates[u].pc = "reject_ext" ]
           ELSE IF file_path \notin bot.temp
           THEN bot' = [ bot EXCEPT !.updates[u].pc = "done",
                                    !.updates[u].exit = "raised" ]
           ELSE IF upd.message.large
           THEN bot' = [ bot EXCEPT !.updates[u].pc = "reject_size" ]
           ELSE bot' = [ bot EXCEPT
                           !.USER_STATES =
                               set_user_state(
                                   set_user_state(@, upd.user_id, "current_file",
                                                  Some(file_path)),
                                   upd.user_id, "processing", TRUE),
                           !.updates[u].pc = "announce" ]
    /\ UNCHANGED <<inst, call, num, batch, http>>

\* The answer to a file of an unsupported extension or size: the reply,
\* then file_path.unlink().
RejectFile(u) ==
    /\ u \in Updates
    /\ bot.updates[u].pc \in { "reject_ext", "reject_size" }
    /\ \E replied \in BOOLEAN :
         LET file_path == The(bot.updates[u].file_path)
             error == IF bot.updates[u].pc = "reject_ext" THEN "unsupported format"
                      ELSE "file too large"
         IN  bot' = [ bot EXCEPT
                        !.temp = IF replied THEN @ \ { file_path } ELSE @,
                        !.updates[u].pc = "done",
                        !.updates[u].replies = IF replied THEN Append(@, error) ELSE @,
                        !.updates[u].exit = Exit(replied /\ file_path \in bot.temp) ]
    /\ UNCHANGED <<inst, call, num, batch, http>>

\* The message that announces the processing, sent before the try block.
AnnounceProcessing(u) ==
    /\ u \in Updates
    /\ bot.updates[u].pc = "announce"
    /\ \E replied \in BOOLEAN :
         bot' = IF replied
                THEN [ bot EXCEPT !.updates[u].pc = "process",
                                  !.updates[u].replies = Append(@, "processing") ]
                ELSE [ bot EXCEPT !.updates[u].pc = "done",
                                  !.updates[u].exit = "raised" ]
    /\ UNCHANGED <<inst, call, num, batch, http>>

\* The finally block: the user's state is cleared and the temp file is
\* removed if it is there.
ClearState(b, u) ==
    [ b EXCEPT !.USER_STATES =
                   set_user_state(
                       set_user_state(@, b.updates[u].user_id, "processing", FALSE),
                       b.updates[u].user_id, "current_file", Absent),
               !.temp = @ \ b.updates[u].file_path ]

\* The try block with its except and finally: process_audio_with_progress
\* opens the file and sends it to the API, and answers with the audio or
\* with an error message; a failed reply is caught, and the reply of the
\* except block may fail in turn.
ProcessAudio(u) ==
    /\ u \in Updates
    /\ bot.updates[u].pc = "process"
    /\ \E audio_data \in BOOLEAN, replied \in BOOLEAN, reported \in BOOLEAN :
         LET opened == The(bot.updates[u].file_path) \in bot.temp
             answer == IF opened /\ audio_data THEN "cleaned audio" ELSE "processing error"
         IN  bot' = ClearState(
                      [ bot EXCEPT
                          !.updates[u].sent = opened,
                          !.updates[u].pc = "done",
                          !.updates[u].replies =
                              IF replied THEN Append(@, answer)
                              ELSE IF reported THEN Append(@, "error") ELSE @,
                          !.updates[u].exit = Exit(replied \/ reported) ], u)
    /\ UNCHANGED <<inst, call, num, batch, http>>

\* ----------------------------------------------------- specifications
NumIdle == [ kernel |-> "none" ]
BatchIdle == [ pc |-> "none" ]
HttpIdle == [ pc |-> "none" ]

\* Denoiser(default_method, target_sr) as callers construct it; the second
\* instance is create_denoiser() with its defaults.
DenoiserConfigs ==
    { NewDenoiser(METHOD_ADAPTIVE, 16000), NewDenoiser(METHOD_BANDPASS, 8000),
      NewDenoiser(METHOD_WIENER, 100) }

InitInst ==
    /\ inst \in [ InstIds -> DenoiserConfigs ]
    /\ inst[2] = NewDenoiser(METHOD_ADAPTIVE, 16000)

\* The calls of the sequential specification: every kind of audio argument
\* and every method; an explicit sr goes with an array, the keyword
\* arguments of a method with that method, the delegate's and the padding's
\* outcome with the methods that may call them, and the spectral methods get
\* a non-empty buffer.
ArgsFor(i, m, audios) ==
    LET method == ResolveMethod(inst[i], m)
        kwargs == CASE method = METHOD_BANDPASS -> BandpassKwargs
                    [] method = METHOD_SPECTRAL_SUBTRACTION -> SubtractionKwargs
                    [] method = METHOD_WIENER -> TransformKwargs
                    [] OTHER -> { NoKwargs }
        given == { x \in audios :
                     method \in { METHOD_SPECTRAL_SUBTRACTION, METHOD_WIENER,
                                  METHOD_NOISEREDUCE } => x.buf.len > 0 }
    IN  UNION { { [ Args(i, audio, sr, m, x[2], d) EXCEPT !.empty_stft_raises = e ] :
                    sr \in IF x[1].kind = "array" THEN { 0 } \cup SampleRates ELSE { 0 },
                    audio \in { x[1] },
                    d \in IF method \in { METHOD_NOISEREDUCE, METHOD_ADAPTIVE }
                          THEN BOOLEAN ELSE { FALSE },
                    e \in IF method = METHOD_SPECTRAL_SUBTRACTION
                             /\ x[2].noise_duration10 <= 0
                          THEN BOOLEAN ELSE { FALSE } } :
                x \in given \X kwargs }

SeqArgs == UNION { ArgsFor(i, m, AudioArgs) : i \in InstIds, m \in MethodArgs }

Init ==
    /\ InitInst
    /\ call = [ c \in CallIds |-> IdleCall ]
    /\ num = NumIdle
    /\ batch = BatchIdle
    /\ http = HttpIdle
    /\ bot = BotIdle

Next == (call[1].pc = "idle" /\ \E a \in SeqArgs : Begin(1, a)) \/ Step(1)

Spec == Init /\ [][Next]_vars

\* The calls of the adaptive method alone, on arrays without silence to trim
\* and on files.
AdaptiveAudio == { x \in AudioArgs : x.buf.sil = 0 }

AdaptiveArgs == UNION { ArgsFor(i, METHOD_ADAPTIVE, AdaptiveAudio) : i \in InstIds }

StepAdaptive(c) ==
    \/ Dispatch(c)
    \/ AdaptiveStage1(c)
    \/ AdaptiveEstimate(c)
    \/ AdaptiveStage2(c)
    \/ AdaptiveStage3(c)
    \/ Normalize(c)
    \/ Trim(c)
    \/ Return(c)
    \/ Forget(c)

NextAdaptive ==
    (call[1].pc = "idle" /\ \E a \in AdaptiveArgs : Begin(1, a)) \/ StepAdaptive(1)

\* A call that was begun is run to its end: denoise is a synchronous
\* computation that nothing suspends.
SpecAdaptive == Init /\ [][NextAdaptive]_vars /\ WF_vars(StepAdaptive(1))

\* Two instances that callers share between threads: calls are begun on
\* either at any time and run their steps in any interleaving.
Constructed ==
    [ i \in InstIds |->
        IF i = 1 THEN NewDenoiser(METHOD_BANDPASS, 16000)
        ELSE NewDenoiser(METHOD_ADAPTIVE, 16000) ]

ConcBuffer(len, mag) == Buffer(len, 8, 500, mag, NoiseFloor(mag))

\* The calls of the concurrent specification: every method, every branch of
\* the adaptive method, on either instance.
ConcArgs ==
    { Args(1, Array(ConcBuffer(20000, Spectrum(0, 8, 8, 0, 1, 0))), 0, None, NoKwargs, FALSE),
      Args(2, Array(ConcBuffer(20000, Spectrum(0, 0, 1, 0, 1, 0))), 0, None, NoKwargs, TRUE),
      Args(1, Array(ConcBuffer(40, Spectrum(0, 3, 0, 0, 1, 0))), 8000,
           METHOD_SPECTRAL_SUBTRACTION, NoKwargs, FALSE),
      Args(2, Array(ConcBuffer(40, Spectrum(0, 3, 0, 0, 1, 0))), 0, METHOD_WIENER,
           NoKwargs, FALSE),
      Args(1, Array(ConcBuffer(40, Spectrum(0, 3, 0, 0, 1, 0))), 0, METHOD_NOISEREDUCE,
           NoKwargs, FALSE),
      Args(2, File("path", 8000, ConcBuffer(20000, Spectrum(0, 8, 8, 0, 1, 0))), 0,
           "denoise", NoKwargs, FALSE) }
    \cup { Args(i, Array(ConcBuffer(20000, Spectrum(2, 3, 3, 1, 1, 4))), 0, METHOD_ADAPTIVE,
                 NoKwargs, FALSE) : i \in InstIds }

InitConc ==
    /\ inst = Constructed
    /\ call = [ c \in CallIds |-> IdleCall ]
    /\ num = NumIdle
    /\ batch = BatchIdle
    /\ http = HttpIdle
    /\ bot = BotIdle

NextConc ==
    \E c \in CallIds :
        (call[c].pc = "idle" /\ \E a \in ConcArgs : Begin(c, a)) \/ Step(c)

SpecConc == InitConc /\ [][NextConc]_vars

NextBatch ==
    \/ BatchMain
    \/ BatchSubmit
    \/ \E k \in FileNames : WorkerTake(k)
    \/ \E k \in FileNames : WorkerFinish(k)
    \/ BatchCollect
    \/ BatchStats

SpecBatch == Init /\ [][NextBatch]_vars

InitKernel ==
    /\ InitInst
    /\ call = [ c \in CallIds |-> IdleCall ]
    /\ batch = BatchIdle
    /\ http = HttpIdle
    /\ bot = BotIdle
    /\ num \in { Operands(m, n, o, f) : m \in Magnitudes, n \in NoiseValues,
                                          o \in OverSubtractions, f \in SpectralFloors }

NextKernel == ApplySpectralSubtraction \/ ApplyWiener

SpecKernel == InitKernel /\ [][NextKernel]_vars

InitHttp ==
    /\ inst = Constructed
    /\ call = [ c \in CallIds |-> IdleCall ]
    /\ num = NumIdle
    /\ batch = BatchIdle
    /\ http = HttpIdle
    /\ bot = BotIdle

NextHttp ==
    \/ HttpReceive
    \/ DenoiseAudio
    \/ ProcessBegin
    \/ ProcessStep
    \/ DenoiseAudioRespond
    \/ DenoiseBatchOpen
    \/ DenoiseBatchFile
    \/ DenoiseBatchFileDone
    \/ DenoiseBatchRespond
    \/ CleanupTempFiles

SpecHttp == InitHttp /\ [][NextHttp]_vars

NextStore ==
    \/ StoreReceive
    \/ DenoiseAudio
    \/ ProcessBegin
    \/ ProcessStep
    \/ DenoiseAudioRespond
    \/ CleanupTempFiles

\* The single-file endpoint serving one request after the other.
SpecStore == InitHttp /\ [][NextStore]_vars

NextBot ==
    \/ BotReceive
    \/ \E u \in 1 .. MaxUpdates :
         \/ cancel_command(u)
         \/ handle_audio_message(u)
         \/ download_file_from_message(u)
         \/ ValidateFile(u)
         \/ RejectFile(u)
         \/ AnnounceProcessing(u)
         \/ ProcessAudio(u)

SpecBot == Init /\ [][NextBot]_vars

InitNormalize ==
    /\ InitInst
    /\ call = [ c \in CallIds |-> IdleCall ]
    /\ batch = BatchIdle
    /\ http = HttpIdle
    /\ bot = BotIdle
    /\ num \in { SampleOperands(audio, target_level) :
                    audio \in SampleBuffers, target_level \in TargetLevels }

NextNormalize == NormalizeOnce \/ NormalizeAgain

SpecNormalize == InitNormalize /\ [][NextNormalize]_vars

InitCutoffs ==
    /\ InitInst
    /\ call = [ c \in CallIds |-> IdleCall ]
    /\ batch = BatchIdle
    /\ http = HttpIdle
    /\ bot = BotIdle
    /\ num \in { CutoffOperands(lowcut, highcut, voice_type) :
                    lowcut \in CutoffArgs, highcut \in CutoffArgs,
                    voice_type \in VoiceTypeArgs }

NextCutoffs == ApplyResolve

SpecCutoffs == InitCutoffs /\ [][NextCutoffs]_vars

\* ------------------------------------------------------------- claims
Terminal(c) == call[c].pc \in { "returned", "failed" }

\* The stages of the method functions, as they appear in a call's trace.
FilterStages ==
    { "butter", "filtfilt", "notch", "noise_profile", "stft", "spectral_subtraction",
      "wiener", "istft", "reduce_noise", "estimate" }

Stages(c) == { call[c].trace[k] : k \in 1 .. Len(call[c].trace) }

Count(seq, x) == Cardinality({ k \in 1 .. Len(seq) : seq[k] = x })

\* C1: a call whose method name is outside the supported set ends with the
\* unknown-method error, having run no filter stage, no normalisation and no
\* silence trim, and returns no result.  Denoiser.denoise loads, resamples
\* and (in load_audio) normalises the audio before it looks at the method
\* name, and a path that cannot be loaded ends the call with the load error.
C1_UnknownMethodFails ==
    \A c \in CallIds :
        (Terminal(c) /\ call[c].method \notin get_available_methods)
            => /\ call[c].pc = "failed"
               /\ call[c].err = "UnknownMethod"
               /\ Stages(c) \cap (FilterStages \cup { "load", "normalize", "trim" }) = {}
               /\ call[c].result = {}

\* The edges of a call's band-pass stage before clamping, in Hz: those of
\* the keyword arguments for the band-pass method, the broadband profile for
\* the adaptive method.
LowEdge(c) ==
    IF call[c].method = METHOD_BANDPASS /\ call[c].args.kwargs.lowcut # Absent
    THEN The(call[c].args.kwargs.lowcut)
    ELSE IF call[c].method = METHOD_BANDPASS
    THEN FreqRange(call[c].args.kwargs.voice_type)[1]
    ELSE 50

HighEdge(c) ==
    IF call[c].method = METHOD_BANDPASS /\ call[c].args.kwargs.highcut # Absent
    THEN The(call[c].args.kwargs.highcut)
    ELSE IF call[c].method = METHOD_BANDPASS
    THEN FreqRange(call[c].args.kwargs.voice_type)[2]
    ELSE 12000

\* The band-pass filter of call c has run (to its end or to an error).
BandpassRan(c) ==
    /\ call[c].method \in { METHOD_BANDPASS, METHOD_ADAPTIVE }
    /\ call[c].pc \notin { "idle", "dispatch", METHOD_BANDPASS, "stage1" }
    /\ call[c].err # "LoadError"

\* C2: band-pass filtering fails with InvalidBand exactly when
\* min(lowcut, nyquist - 1) >= min(highcut, nyquist - 1), nyquist = sr / 2
\* (both sides doubled here), and it fails before a filter is designed or
\* applied.
C2_InvalidBand ==
    \A c \in CallIds :
        BandpassRan(c)
            => /\ (call[c].err = "InvalidBand")
                    <=> (Min(2 * LowEdge(c), call[c].orig_sr - 2)
                           >= Min(2 * HighEdge(c), call[c].orig_sr - 2))
               /\ call[c].err = "InvalidBand"
                    => /\ call[c].pc = "failed"
                       /\ Stages(c) \cap FilterStages = {}

\* lowcut = 9000, highcut = 8000 at 16000 Hz.
C2_Witness ==
    \E c \in CallIds :
        /\ call[c].err = "InvalidBand"
        /\ call[c].orig_sr = 16000
        /\ call[c].args.kwargs.lowcut = Some(9000)
        /\ call[c].args.kwargs.highcut = Some(8000)

\* The adaptive method of call c was invoked.
AdaptiveInvoked(c) ==
    /\ call[c].method = METHOD_ADAPTIVE
    /\ call[c].pc \notin { "idle", "dispatch" }
    /\ call[c].err # "LoadError"

\* C3, as stated: every invocation of the adaptive method ends in the
\* Returned state with a DenoiseResult.
C3_Original ==
    \A c \in CallIds :
        (AdaptiveInvoked(c) /\ Terminal(c))
            => call[c].pc = "returned" /\ call[c].result # {}

\* A stage of the adaptive method raises for call c: the broadband band is
\* empty at the target rate, the buffer is not longer than the 33 samples
\* the order-5 band-pass pads with, or the delegate raises in the high branch.
AdaptiveRaises(c) ==
    \/ call[c].orig_sr - 2 <= 100
    \/ call[c].audio_data.len <= 33
    \/ call[c].branch = "high" /\ call[c].args.delegate_raises

\* The outcome of a finished invocation of the adaptive method.
AdaptiveOutcome(c) ==
    IF AdaptiveRaises(c)
    THEN /\ call[c].pc = "failed"
         /\ call[c].err \in { "InvalidBand", "PadlenError", "DelegateFailure" }
         /\ call[c].result = {}
    ELSE /\ call[c].pc = "returned"
         /\ \E r \in call[c].result :
              /\ call[c].result = { r }
              /\ r.audio = call[c].denoised_audio
              /\ r.sample_rate = call[c].orig_sr
              /\ r.method = METHOD_ADAPTIVE
              /\ r.processing_time \in ProcessingTimes
              /\ r.original_shape = call[c].audio_data.len
              /\ r.denoised_shape = r.audio.len

\* C3, amended: every invocation of the adaptive method comes to an end; it
\* ends in the Returned state with a DenoiseResult (audio, sample rate,
\* method, processing time, both shapes) unless a stage raises, and then it
\* ends with that stage's error and no result.
C3_AdaptiveEnds ==
    \A c \in CallIds :
        /\ [](AdaptiveInvoked(c) /\ Terminal(c) => AdaptiveOutcome(c))
        /\ [](AdaptiveInvoked(c) => <>Terminal(c))

C3_Witness ==
    \E c \in CallIds :
        /\ AdaptiveInvoked(c)
        /\ call[c].pc = "returned"
        /\ call[c].branch = "high"
        /\ call[c].result # {}

\* The delegate was called by call c and raised.
DelegateRaised(c) ==
    call[c].args.delegate_raises /\ "reduce_noise" \in Stages(c)

\* C4: when the delegate raises, in the noisereduce method or in the high
\* branch of the adaptive method, the call fails with the delegate's error:
\* the delegate was called once, nothing ran after it, no result is returned.
C4_DelegateFailureSurfaces ==
    \A c \in CallIds :
        DelegateRaised(c)
            => /\ call[c].pc = "failed"
               /\ call[c].err = "DelegateFailure"
               /\ call[c].result = {}
               /\ Count(call[c].trace, "reduce_noise") = 1
               /\ call[c].trace[Len(call[c].trace)] = "reduce_noise"

C4_Witness ==
    \E c \in CallIds :
        /\ DelegateRaised(c)
        /\ call[c].method = METHOD_ADAPTIVE
        /\ call[c].branch = "high"
        /\ call[c].pc = "failed"

\* C5: a returned result names the method that was passed, the instance's
\* default_method when none was passed; for the adaptive method it names
\* "adaptive" in every branch.
C5_MethodField ==
    \A c \in CallIds : \A r \in call[c].result :
        /\ call[c].args.method \in get_available_methods
             => r.method = call[c].args.method
        /\ call[c].args.method = None
             => r.method = inst[call[c].args.inst].default_method
        /\ call[c].branch # None => r.method = METHOD_ADAPTIVE

C5_Witness ==
    \E c \in CallIds : \E r \in call[c].result :
        /\ call[c].args.method = None
        /\ r.method = METHOD_ADAPTIVE
        /\ call[c].branch = "medium"

\* What call c came to: its error and no result, or no error and the fields
\* of its result other than the processing time.
Outcome(c) ==
    [ err |-> call[c].err,
      result |-> { [ audio |-> r.audio, sample_rate |-> r.sample_rate,
                     method |-> r.method, original_shape |-> r.original_shape,
                     denoised_shape |-> r.denoised_shape ] : r \in call[c].result } ]

\* A step writes the local variables of one call at most and no field of an
\* instance.
OwnLocalsOnly ==
    /\ inst' = inst
    /\ \E c \in CallIds : \A d \in CallIds \ { c } : call'[d] = call[d]

\* What each call of the concurrent specification comes to when it runs
\* alone on the instance as it was constructed.
RunAlone == [ a \in ConcArgs |-> denoise(Constructed[a.inst], a) ]

\* C6: in every interleaving of calls on the same or on different
\* instances, a call that came to its end came to what Denoiser.denoise
\* gives for its arguments on the instance as it was constructed, the
\* instances' fields are what they were constructed with, and no step writes
\* another call's variables.
C6_NoInterference ==
    /\ [](\A c \in CallIds :
            Terminal(c) => Outcome(c) = RunAlone[call[c].args])
    /\ [](inst = Constructed)
    /\ [][OwnLocalsOnly]_vars

\* Two calls on the same instance, one in the middle of the adaptive method
\* when the other, which used the instance's default method, has returned.
C6_Witness ==
    \E c, d \in CallIds :
        /\ c # d
        /\ call[c].args.inst = call[d].args.inst
        /\ call[c].pc = "returned"
        /\ call[c].args.method = None
        /\ call[d].pc = "stage2"
        /\ call[d].args.method = METHOD_ADAPTIVE
        /\ Outcome(c) = RunAlone[call[c].args]

\* The adaptive method of call c has measured the noise level.
Estimated(c) == call[c].branch # None

BatchCollected == batch.pc \in { "stats", "done", "report_error" }

\* C7: once the driver has collected its futures it holds one record per
\* file found, in the order of the files, each the record
\* process_single_file gives for that file alone: a success, or a failure
\* with that file's error text; and at the end the successes and the
\* failures counted add up to the number of files found.
C7_OneRecordPerFile ==
    /\ batch.pc \in { "submit", "collect" }
         => /\ Len(batch.results) <= Len(batch.futures)
            /\ Len(batch.futures) <= Len(batch.audio_files)
    /\ BatchCollected
         => /\ Len(batch.results) = Len(batch.audio_files)
            /\ \A k \in 1 .. Len(batch.audio_files) :
                 LET f == batch.audio_files[k]
                     r == batch.results[k]
                 IN  /\ r = process_single_file(f, batch.method)
                     /\ r.input_file = f.name
                     /\ r.success = f.ok
                     /\ ~f.ok => r.error = ErrorText(f.name)
    /\ batch.pc \in { "done", "report_error" }
         => /\ batch.successful + batch.failed = Len(batch.audio_files)
            /\ batch.successful =
                 Cardinality({ k \in 1 .. Len(batch.audio_files) : batch.audio_files[k].ok })

\* Three files, the second of which fails, processed by two workers.
C7_Witness ==
    /\ batch.pc = "done"
    /\ Len(batch.audio_files) = 3
    /\ batch.workers = 2
    /\ ~batch.audio_files[2].ok
    /\ batch.results[3].success
    /\ batch.successful = 2
    /\ batch.failed = 1

\* C8: for a spectral floor >= 0, any over-subtraction factor and a
\* non-negative noise profile, the magnitude spectral subtraction gives is
\* not negative and not below spectral_floor * magnitude (the product as
\* the code computes it), and it is one of the two terms of the maximum.
C8_SpectralFloor ==
    num.kernel = "spectral_subtraction"
        => /\ QLeq(Zero, num.out)
           /\ QLeq(FMul(num.spectral_floor, num.magnitude), num.out)
           /\ QLeq(FSub(num.magnitude, FMul(num.over_subtraction, num.noise)), num.out)
           /\ num.out \in { FMul(num.spectral_floor, num.magnitude),
                             FSub(num.magnitude, FMul(num.over_subtraction, num.noise)) }

\* A bin whose subtraction is negative and whose output is the floor term.
C8_Witness ==
    /\ num.kernel = "spectral_subtraction"
    /\ QLess(FSub(num.magnitude, FMul(num.over_subtraction, num.noise)), Zero)
    /\ QLess(Zero, num.spectral_floor)
    /\ QLess(Zero, num.out)
    /\ num.out = FMul(num.spectral_floor, num.magnitude)

\* C9, as stated: the Wiener gain g satisfies 0 <= g < 1.
C9_Original ==
    num.kernel = "wiener" => QLeq(Zero, num.out) /\ QLess(num.out, One)

\* C9, amended: the Wiener gain g satisfies 0 <= g <= 1; it is 0 where the
\* power does not exceed the noise PSD, and it is below 1 where the noise
\* PSD is not below the power it leaves.
C9_GainBounds ==
    num.kernel = "wiener"
        => LET magnitude_squared == FMul(num.magnitude, num.magnitude)
           IN  /\ QLeq(Zero, num.out) /\ QLeq(num.out, One)
               /\ QLeq(magnitude_squared, num.noise) => num.out = Zero
               /\ QLeq(FSub(magnitude_squared, num.noise), num.noise)
                    => QLess(num.out, One)

\* A bin without noise whose gain is exactly 1: prior_snr + 1 rounds to
\* prior_snr.
C9_Witness ==
    /\ num.kernel = "wiener"
    /\ num.noise = Zero
    /\ num.out = One

\* A method function of call c was entered, and the call has ended.
MethodEntered(c) == Terminal(c) /\ call[c].err \notin { "LoadError", "UnknownMethod" }

\* C11: a call of the spectral-subtraction or the Wiener method whose FFT
\* size is not positive, or whose hop size is not below its FFT size, ends
\* with the error of a rejected parameter, having run no stage of the method.
C11_TransformParameters ==
    \A c \in CallIds :
        LET k == call[c].args.kwargs
        IN  /\ MethodEntered(c)
            /\ call[c].method \in { METHOD_SPECTRAL_SUBTRACTION, METHOD_WIENER }
            /\ (k.n_fft <= 0 \/ k.hop_length >= k.n_fft)
            => /\ call[c].pc = "failed"
               /\ call[c].err = "ParameterError"
               /\ Stages(c) \cap FilterStages = {}

\* C12: a spectral-subtraction call whose noise duration is not positive, and
\* a band-pass call whose filter order is not positive, end with an error:
\* no filter stage has run and no result is returned.
C12_DurationAndOrder ==
    \A c \in CallIds :
        LET k == call[c].args.kwargs
        IN  /\ MethodEntered(c)
            /\ \/ call[c].method = METHOD_SPECTRAL_SUBTRACTION /\ k.noise_duration10 <= 0
               \/ call[c].method = METHOD_BANDPASS /\ k.order <= 0
            => /\ call[c].pc = "failed"
               /\ call[c].err # "none"
               /\ call[c].result = {}
               /\ Stages(c) \cap (FilterStages \ { "butter" }) = {}

\* Call c was given an array at a rate other than the target rate of its
\* instance, and has begun.
ArrayAtOtherRate(c) ==
    /\ call[c].pc # "idle"
    /\ call[c].args.audio.kind = "array"
    /\ call[c].args.sr \notin { 0, inst[call[c].args.inst].target_sr }

Given(c) ==
    IF call[c].pc \in get_available_methods \cup { "stage1" }
    THEN call[c].audio_data
    ELSE call[c].denoised_audio

\* Call c runs a stage to its end in this step.
StageReturns(c) ==
    /\ call[c].pc \in get_available_methods
                      \cup { "stage1", "stage2", "stage3", "normalize", "trim" }
    /\ call[c].pc' # call[c].pc
    /\ call[c].pc' # "failed"

\* C14: a denoise call leaves the samples of the caller's array as they
\* were, whatever the method and whether it returns or raises, and every
\* stage returns a buffer other than the one it was given.
C14_NoMutation ==
    [][ \A c \in CallIds :
          /\ call[c].pc' # "idle" /\ call[c].args'.audio.kind = "array"
             => \A b \in { call[c].audio_data', call[c].denoised_audio' } :
                    b.mem = "input" => b = call[c].args'.audio.buf
          /\ StageReturns(c) => call[c].denoised_audio'.mem # Given(c).mem ]_vars

\* C15: before the clamping each cutoff is resolved on its own: an edge the
\* caller passes is used as passed, a missing one is that edge of the voice
\* profile, male 80-8000, female 100-10000, broadband 50-12000 Hz, and a
\* profile name outside the three stands for broadband.
C15_CutoffResolution ==
    num.kernel = "resolved"
        => LET profile == IF num.voice_type \in { "male", "female", "broadband" }
                          THEN num.voice_type ELSE "broadband"
               edges == CASE profile = "male" -> <<80, 8000>>
                          [] profile = "female" -> <<100, 10000>>
                          [] OTHER -> <<50, 12000>>
           IN  /\ num.low2 = 2 * (IF num.lowcut = Absent THEN edges[1] ELSE The(num.lowcut))
               /\ num.high2 = 2 * (IF num.highcut = Absent THEN edges[2]
                                   ELSE The(num.highcut))

\* lowcut = 300 with the highcut of an unknown profile: 300 to 12000 Hz.
C15_Witness ==
    /\ num.kernel = "resolved"
    /\ num.lowcut = Some(300) /\ num.highcut = Absent /\ num.voice_type = "child"
    /\ num.low2 = 600 /\ num.high2 = 24000

\* C16 as stated: normalising a normalised buffer gives the same samples,
\* and a buffer whose peak is the target level comes back with the samples
\* it had.
C16_Original ==
    /\ num.kernel = "renormalized" => num.twice = num.once
    /\ /\ num.kernel \in { "normalized", "renormalized" }
       /\ num.audio # <<>>
       /\ CurrentMax(num.audio) = num.target_level
       => num.once = num.audio
\* Four roundings lie between a sample of the normalised buffer and the same
\* sample normalised again, each within 2^-MantBits of its operand.
Tolerance == Q(5, Pow2(MantBits))

\* C16, amended: normalising a normalised buffer changes no sample by more
\* than the rounding of the arithmetic, and changes nothing at all when the
\* peak of the normalised buffer is the target level exactly; a buffer whose
\* peak is the target level comes back with the samples it had.
C16_IdempotentWithinRounding ==
    /\ num.kernel = "renormalized"
       => /\ Len(num.twice) = Len(num.once)
          /\ \A i \in DOMAIN num.once :
                QLeq(QAbs(QAdd(num.twice[i], Neg[num.once[i]])),
                     QMul(QAbs(num.once[i]), Tolerance))
          /\ num.once # <<>> /\ CurrentMax(num.once) = num.target_level
             => num.twice = num.once
    /\ /\ num.kernel \in { "normalized", "renormalized" }
       /\ num.audio # <<>>
       /\ CurrentMax(num.audio) = num.target_level
       => num.once = num.audio

\* Two samples whose second normalisation differs from the first, and a
\* buffer at the target level that came back as it was.
C16_Witness ==
    /\ num.kernel = "renormalized"
    /\ Len(num.once) = 2
    /\ num.twice # num.once
    /\ CurrentMax(num.once) # num.target_level

\* A batch request within the limit on the number of files was answered.
BatchAnswered ==
    /\ http.pc \in { "responded", "cleaned" }
    /\ http.endpoint = "batch"
    /\ Len(http.audio_files) <= MAX_UPLOAD_FILES

\* The file passes the validation and the denoiser, taken by itself.
Processable(file) ==
    /\ validate_upload_file(file) = NoError
    /\ process_audio_file(denoise(get_denoiser,
                                  ProcessArgs(file, http.method, http.sample_rate,
                                              http.voice_type)),
                          http.sample_rate).err = NoError

\* C17: the response to a batch request of at most MAX_UPLOAD_FILES files
\* counts every uploaded file, as processed or as failed; its results hold
\* one entry per file in the order of the upload, its download URLs one per
\* successful file, and a file succeeds or fails whatever the files before
\* it did.
C17_BatchResponse ==
    BatchAnswered
        => LET body == http.response.body
               n == Len(http.audio_files)
               good == SelectSeq(body.results, LAMBDA r : r.status = "success")
           IN  /\ http.response.status_code = 200
               /\ body.total_files = n
               /\ body.processed_files + body.failed_files = n
               /\ Len(body.results) = n
               /\ \A i \in 1 .. n :
                     /\ body.results[i].filename = http.audio_files[i].filename
                     /\ body.results[i].status
                          = IF Processable(http.audio_files[i]) THEN "success" ELSE "failed"
               /\ body.processed_files = Len(good)
               /\ body.download_urls = [ j \in DOMAIN good |-> good[j].processed_filename ]

\* Two files, the first of an unsupported format, the second denoised.
C17_Witness ==
    /\ BatchAnswered
    /\ Len(http.audio_files) = 2
    /\ http.response.body.results[1].status = "failed"
    /\ http.response.body.results[2].status = "success"
    /\ http.response.body.download_urls = << <<"b", "adaptive">> >>

\* A single-file upload that failed the validation was answered.
RejectedUpload ==
    /\ http.pc \in { "responded", "cleaned" }
    /\ http.endpoint = "denoise"
    /\ validate_upload_file(http.audio_files[1]) # NoError

\* C18: a single-file upload that fails the validation is answered with the
\* status of the validation error and a body with an error field, 400 for an
\* extension outside the allowed set and 413 with "File too large" for a file
\* above the size limit; the file is never saved and the denoiser is never
\* invoked.
C18_ValidationErrorBody ==
    RejectedUpload
        => LET exc == validate_upload_file(http.audio_files[1])
               body == http.response.body
           IN  /\ http.response.status_code = exc.status_code
               /\ exc = UnsupportedFormatError => http.response.status_code = 400
               /\ exc = FileTooLargeError => http.response.status_code = 413
               /\ "error" \in DOMAIN body
               /\ body.error = exc.error
               /\ http.uploads = <<>>
               /\ http.denoised = <<>>

\* The stages of the adaptive method that call c entered, in their order:
\* the band-pass (its filter design), the spectral subtraction (its noise
\* profile) and the delegate.
AdaptiveStagesRun(c) ==
    SelectSeq(call[c].trace, LAMBDA s : s \in { "butter", "noise_profile", "reduce_noise" })

\* Start -> PreFiltered -> Returned, Start -> PreFiltered ->
\* SpectralSubtracted -> Returned and Start -> PreFiltered ->
\* SpectralSubtracted -> DelegateSuppressed -> Returned.
AdaptivePaths ==
    { <<"butter">>, <<"butter", "noise_profile">>,
      <<"butter", "noise_profile", "reduce_noise">> }

\* C19, as stated: every run of the adaptive method goes along one of the
\* three paths to Returned.
C19_Original ==
    \A c \in CallIds :
        (AdaptiveInvoked(c) /\ Terminal(c))
            => /\ call[c].pc = "returned"
               /\ AdaptiveStagesRun(c) \in AdaptivePaths
               /\ "wiener" \notin Stages(c)

\* C19, amended: the stages a run of the adaptive method executes are an
\* initial part of one of the three paths, the band-pass pre-filter first
\* and once, no stage twice and none outside them; a run that returns has
\* completed every stage of its path, and a run in which the pre-filter or
\* the delegate raises ends there without reaching Returned.
C19_StagePaths ==
    \A c \in CallIds :
        AdaptiveInvoked(c)
            => /\ "wiener" \notin Stages(c)
               /\ AdaptiveStagesRun(c) \in AdaptivePaths \cup { <<>> }
               /\ AdaptiveStagesRun(c) = <<>>
                    => call[c].pc = "stage1" \/ call[c].err = "InvalidBand"
               /\ Count(call[c].trace, "filtfilt") <= 1
               /\ Count(call[c].trace, "istft") <= 1
               /\ call[c].pc = "returned"
                    => /\ AdaptiveStagesRun(c) \in AdaptivePaths
                       /\ "filtfilt" \in Stages(c)
                       /\ "noise_profile" \in Stages(c) => "istft" \in Stages(c)
               /\ call[c].pc = "failed"
                    => \/ /\ call[c].err \in { "InvalidBand", "PadlenError" }
                          /\ "filtfilt" \notin Stages(c)
                          /\ Len(AdaptiveStagesRun(c)) <= 1
                       \/ /\ call[c].err = "DelegateFailure"
                          /\ Len(AdaptiveStagesRun(c)) = 3

\* A run of the medium branch that returned.
C19_Witness ==
    \E c \in CallIds :
        /\ AdaptiveInvoked(c)
        /\ call[c].pc = "returned"
        /\ AdaptiveStagesRun(c) = <<"butter", "noise_profile">>

\* The noise level of call c was measured.
Measured(c) == AdaptiveInvoked(c) /\ "estimate" \in Stages(c)

\* The position of the first stage s in the trace of call c.
Position(c, s) == CHOOSE k \in DOMAIN call[c].trace : call[c].trace[k] = s

\* C20: in the adaptive method, when the noise ratio measured on the
\* pre-filtered signal is at least 0.15, spectral subtraction is applied to
\* the stage-1 output and then the delegate to the output of the spectral
\* subtraction, in that order; the adaptive method calls the delegate in no
\* other case.
C20_HighNoisePath ==
    \A c \in CallIds :
        Measured(c)
            => LET pre == bandpass_filter(call[c].audio_data, call[c].orig_sr,
                                          Absent, Absent, 5, "broadband").buf
                   sub == denoiser_spectral_subtraction(pre, call[c].orig_sr,
                                                        NoKwargs, FALSE).buf
                   del == noisereduce_filter(sub, call[c].orig_sr,
                                             call[c].args.delegate_raises)
                   high == ~QLess(estimate_noise_level(pre), HighThreshold)
               IN  /\ call[c].noise_level = estimate_noise_level(pre)
                   /\ ~high => "reduce_noise" \notin Stages(c)
                   /\ (high /\ call[c].pc = "stage2")
                        => /\ call[c].denoised_audio = pre
                           /\ "noise_profile" \notin Stages(c)
                           /\ "reduce_noise" \notin Stages(c)
                   /\ (high /\ call[c].pc = "stage3")
                        => /\ call[c].denoised_audio = sub
                           /\ "istft" \in Stages(c)
                           /\ "reduce_noise" \notin Stages(c)
                   /\ (high /\ call[c].pc \notin { "stage2", "stage3" })
                        => /\ Count(call[c].trace, "istft") = 1
                           /\ Count(call[c].trace, "reduce_noise") = 1
                           /\ Position(c, "istft") < Position(c, "reduce_noise")
                           /\ call[c].pc = "normalize"
                                => del.err = "none" /\ call[c].denoised_audio = del.buf
                           /\ call[c].pc = "failed"
                                => del.err = call[c].err /\ call[c].denoised_audio = sub

C20_Witness ==
    \E c \in CallIds :
        /\ Measured(c)
        /\ ~QLess(call[c].noise_level, HighThreshold)
        /\ call[c].pc = "normalize"
        /\ call[c].denoised_audio.suppressed

\* The output of stage 1 of the adaptive method of call c.
Stage1Output(c) ==
    bandpass_filter(call[c].audio_data, call[c].orig_sr, Absent, Absent, 5, "broadband").buf

\* The noise ratio of call c, measured on the output of stage 1.
NoiseRatio(c) == estimate_noise_level(Stage1Output(c))

\* C21: in the adaptive method, when the noise ratio measured on the
\* pre-filtered signal is below 0.05, the band-pass output is what the method
\* returns, the same samples; neither the spectral subtraction nor the
\* delegate is invoked.
C21_LowNoiseReturnsStage1 ==
    \A c \in CallIds :
        (Measured(c) /\ QLess(NoiseRatio(c), LowThreshold))
            => /\ call[c].noise_level = NoiseRatio(c)
               /\ call[c].pc \notin { "stage2", "stage3", "failed" }
               /\ Stages(c) \cap { "noise_profile", "stft", "spectral_subtraction",
                                    "istft", "reduce_noise" } = {}
               /\ call[c].pc = "normalize" => call[c].denoised_audio = Stage1Output(c)

C21_Witness ==
    \E c \in CallIds :
        /\ Measured(c)
        /\ QLess(NoiseRatio(c), LowThreshold)
        /\ QLess(Zero, NoiseRatio(c))
        /\ call[c].pc = "normalize"
        /\ call[c].denoised_audio.mem # "input"

\* The range of the three that a noise ratio lies in.
RatioRanges(r) ==
    { x \in { "low", "medium", "high" } :
        \/ x = "low" /\ QLess(r, LowThreshold)
        \/ x = "medium" /\ QLeq(LowThreshold, r) /\ QLess(r, HighThreshold)
        \/ x = "high" /\ QLeq(HighThreshold, r) }

\* C22: in the adaptive method, when 0.05 <= noise ratio < 0.15, spectral
\* subtraction with its default parameters is applied once to the stage-1
\* output and its result is returned, and the delegate is not invoked; every
\* noise ratio lies in exactly one of the ranges below 0.05, from 0.05 to
\* below 0.15, and from 0.15, and the run takes the branch of that range.
C22_MediumNoisePath ==
    \A c \in CallIds :
        Measured(c)
            => LET r == NoiseRatio(c)
                   sub == denoiser_spectral_subtraction(Stage1Output(c), call[c].orig_sr,
                                                        NoKwargs, FALSE)
               IN  /\ RatioRanges(r) = { call[c].branch }
                   /\ call[c].noise_level = r
                   /\ RatioRanges(r) = { "medium" }
                        => /\ call[c].pc \notin { "stage3", "failed" }
                           /\ "reduce_noise" \notin Stages(c)
                           /\ call[c].pc = "stage2"
                                => /\ call[c].denoised_audio = Stage1Output(c)
                                   /\ "noise_profile" \notin Stages(c)
                           /\ call[c].pc # "stage2"
                                => /\ Count(call[c].trace, "noise_profile") = 1
                                   /\ Count(call[c].trace, "spectral_subtraction") = 1
                                   /\ Count(call[c].trace, "istft") = 1
                           /\ call[c].pc = "normalize"
                                => sub.err = "none" /\ call[c].denoised_audio = sub.buf

\* A run whose noise ratio is the threshold 0.05 itself.
C22_Witness ==
    \E c \in CallIds :
        /\ Measured(c)
        /\ QLeq(NoiseRatio(c), LowThreshold)
        /\ QLeq(LowThreshold, NoiseRatio(c))
        /\ call[c].pc = "normalize"
        /\ call[c].denoised_audio.mem = "istft"

\* Call c ran the band-pass method past its filter.
BandpassFiltered(c) ==
    /\ call[c].method = METHOD_BANDPASS
    /\ "filtfilt" \in Stages(c)
    /\ call[c].pc # "failed"

\* The effective pass band of call c, doubled, overlaps the region from 45 Hz
\* to 55 Hz.
OverlapsMains(c) ==
    LET k == call[c].args.kwargs
        lowc2 == ClampCut2(ResolveLow2(k.lowcut, k.highcut, k.voice_type), call[c].orig_sr)
        highc2 == ClampCut2(ResolveHigh2(k.lowcut, k.highcut, k.voice_type), call[c].orig_sr)
    IN  lowc2 <= 110 /\ 90 <= highc2

\* C23: in band-pass filtering, the 50 Hz notch filter is applied after the
\* band-pass if and only if the effective pass band does not overlap the
\* region from 45 Hz to 55 Hz; a pass band that overlaps it, 40 Hz to 8000 Hz
\* for one, skips the notch.
C23_NotchOutsidePassBand ==
    \A c \in CallIds :
        BandpassFiltered(c) => ("notch" \in Stages(c) <=> ~OverlapsMains(c))

\* The band-pass method of call c passed its band check: the filter design
\* was called.
BandChecked(c) == call[c].method = METHOD_BANDPASS /\ "butter" \in Stages(c)

\* C24: whenever the band check of the band-pass filter passes, the edges
\* handed to the filter design, as fractions of the Nyquist frequency,
\* satisfy 0 < low < high < 1, whatever the sample rate and the cutoffs,
\* an explicit cutoff of zero included.
C24_NormalizedEdges ==
    \A c \in CallIds :
        BandChecked(c)
            => LET k == call[c].args.kwargs
                   sr == call[c].orig_sr
                   lowc2 == ClampCut2(ResolveLow2(k.lowcut, k.highcut, k.voice_type), sr)
                   highc2 == ClampCut2(ResolveHigh2(k.lowcut, k.highcut, k.voice_type), sr)
               IN  0 < lowc2 /\ lowc2 < highc2 /\ highc2 < sr

\* Call c ran the Wiener filter past its transform.
WienerFiltered(c) == call[c].method = METHOD_WIENER /\ "wiener" \in Stages(c)

\* C25: in the Wiener filter the frames averaged into the noise PSD are never
\* none: the leading int(0.5 * sr / hop_length) frames when that number is
\* smaller than the number of frames, all frames otherwise, whatever the
\* sample rate and the hop length.
C25_NoisePsdFrames ==
    \A c \in CallIds :
        WienerFiltered(c)
            => /\ NoisePsdFrames(call[c].audio_data.len, call[c].orig_sr,
                                 call[c].args.kwargs.hop_length) >= 1
               /\ call[c].pc = "normalize" => call[c].denoised_audio.mag # NaNSpectrum

\* The tasks of the batch whose worker writes or has written an output file.
Writers ==
    IF batch.pc \in { "submit", "collect", "stats", "done", "report_error" }
    THEN { k \in 1 .. Len(batch.futures) :
             batch.futures[k] \in { "running", "done" } /\ batch.audio_files[k].ok }
    ELSE {}

\* C26: in the batch driver distinct input files are written to distinct
\* output files, so that no two worker threads write the same output path,
\* in recursive mode too, when files of different sub-directories have the
\* same name.
C26_DistinctOutputFiles ==
    \A j \in Writers, k \in Writers :
        j # k => OutputFile(batch.audio_files[j].name) # OutputFile(batch.audio_files[k].name)

\* C27: the download URL returned to a denoise request serves the audio that
\* request produced: no later request with the same file-name stem and
\* method overwrites the processed file behind it.
C27_DownloadServesOwnAudio ==
    http.pc # "none"
        => \A u \in http.issued :
             [ name |-> u.download_url, audio |-> u.audio ] \in http.processed

\* The files that the cleanup is scheduled for.
Scheduled == { http.background[i] : i \in DOMAIN http.background }

\* C28: every upload that the single-file endpoint saved to the upload
\* directory is scheduled for deletion, whatever the outcome of the request:
\* once the request is answered, no saved upload is left that the cleanup
\* was not scheduled for.
C28_UploadCleanupScheduled ==
    (http.pc \in { "responded", "cleaned" } /\ http.endpoint = "denoise")
        => \A i \in DOMAIN http.uploads : http.uploads[i] \in Scheduled

\* The handler of update u is between the start of its download and the end
\* of its processing.
InProcessing(u) ==
    /\ bot.updates[u].handler = "handle_audio_message"
    /\ bot.updates[u].pc \in { "download", "validate", "reject_ext", "reject_size",
                              "announce", "process" }

ExitsAfterDownload(u) ==
    /\ u \in Updates
    /\ bot.updates[u].handler = "handle_audio_message"
    /\ bot.updates[u].exit = "none"
    /\ bot'.updates[u].exit # "none"
    /\ bot.updates[u].downloaded

\* C30: whenever handle_audio_message ends after the file was downloaded,
\* on every exit path, the temporary file is deleted, the user's processing
\* flag is False and current_file is None.
C30_ExitLeavesNothing ==
    [][ \A u \in 1 .. MaxUpdates :
          ExitsAfterDownload(u)
             => /\ bot'.temp \cap bot.updates[u].file_path = {}
                /\ ~bot'.USER_STATES[bot.updates[u].user_id].processing
                /\ bot'.USER_STATES[bot.updates[u].user_id].current_file = Absent ]_vars

====
